---------------------------- MODULE Spec2Model ----------------------------
(***************************************************************************)
(* Akumuli storage core: Sequencer (sliding lateness window, checkpoints,  *)
(* k-way merge), Page (append-only entries, chunk sentinels, histogram),   *)
(* Volume ring (rotation) and the column codec used to size chunk bodies.  *)
(* Integers are scaled from 64 bits to WordBits bits; arithmetic on        *)
(* encoded columns is modulo 2^WordBits.                                   *)
(***************************************************************************)
EXTENDS Integers, Sequences, FiniteSets, TLC

(***************************************************************************)
(* Bounds of the model                                                     *)
(***************************************************************************)
\* window_size W of the Sequencer (aku_FineTuneParams.window_size)
window_size_ == 2
\* compression_threshold C of the Sequencer
c_threshold_ == 2
\* largest timestamp a client writes
MaxTs == 4
\* largest series id a client writes
MaxParamId == 2
\* number of Sequencer::add calls explored
MaxAdds == 3
\* histogram capacity, scaled down from 0x10000
AKU_HISTOGRAM_SIZE == 2
\* number of volumes in the ring
NumVolumes == 2
\* reuse and close calls a directly driven page sees at most
MaxOpen == 2
\* Storage writes at most
MaxWrites == 5
\* windows the timestamps of a durable Storage span, and the length of its
\* page files: room for two chunks of c_threshold_ samples
MaxWindows == 5
DurablePageLength == 300
\* largest bound of a PageHeader::search query
MaxQueryTs == 1
\* size_limit_ of the ChunkCache in bytes
CacheLimit == 72
\* largest key and longest chunk ChunkCache::put is given, and number of puts
MaxCacheKey == 3
MaxChunkRows == 2
MaxPuts == 4
\* writers calling advance_volume_, and the open_count and close_count up to
\* which a writer starts a call and the Storage is opened again
NumWriters == 2
MaxRingOpen == 3
\* largest sequence_number a reader passes to Sequencer::search
MaxGeneration == 2
\* runs handed to kway_merge: how many, how long, with timestamps up to
MaxMergeRuns == 2
MaxRunLen == 2
MaxMergeTs == 1
\* longest column handed to the codecs
MaxColumnLen == 3
\* page_size of a volume in bytes
PageLength == 196
\* length of a page file too small for any chunk
SmallPageLength == 104

(***************************************************************************)
(* Program constants (scaled to WordBits-bit words)                        *)
(***************************************************************************)
WordBits == 8
WordMod == 2 ^ WordBits
AKU_LIMITS_MAX_ID == WordMod - 3
AKU_ID_COMPRESSED == WordMod - 2
AKU_CHUNK_FWD_ID == WordMod - 2
AKU_CHUNK_BWD_ID == WordMod - 1
AKU_MIN_TIMESTAMP == 0
AKU_MAX_TIMESTAMP == WordMod - 1
SizeofEntry == 20
SizeofEntryOffset == 4
SizeofChunkDesc == 16
SizeofDouble == 8
SizeofPageHeader == 76 + 12 * AKU_HISTOGRAM_SIZE

Timestamps == 0..MaxTs
ParamIds == 1..MaxParamId
Values == {0}
RandVals == {0, 1}

(***************************************************************************)
(* Generic helpers                                                         *)
(***************************************************************************)
Min2(a, b) == IF a < b THEN a ELSE b
Max2(a, b) == IF a > b THEN a ELSE b

RECURSIVE SeqSum(_)
SeqSum(s) == IF s = <<>> THEN 0 ELSE Head(s) + SeqSum(Tail(s))

RECURSIVE Flatten(_)
Flatten(ss) == IF ss = <<>> THEN <<>> ELSE Head(ss) \o Flatten(Tail(ss))

\* number of occurrences of x in the sequence s
Occurrences(s, x) == Cardinality({i \in 1..Len(s) : s[i] = x})

\* s and t hold the same elements with the same multiplicities
SameBag(s, t) ==
    /\ Len(s) = Len(t)
    /\ \A i \in 1..Len(s) : Occurrences(s, s[i]) = Occurrences(t, s[i])

(***************************************************************************)
(* Chunk codec: writers                                                    *)
(***************************************************************************)
\* Base128Int::put - little-endian 7-bit groups, MSB set on all but the last
RECURSIVE Base128Put(_)
Base128Put(value) ==
    IF value \div 128 # 0
    THEN <<(value % 128) + 128>> \o Base128Put(value \div 128)
    ELSE <<value % 128>>

\* Base128StreamWriter: put every value of the column
RECURSIVE Base128Write(_)
Base128Write(col) ==
    IF col = <<>> THEN <<>> ELSE Base128Put(Head(col)) \o Base128Write(Tail(col))

\* RLEStreamWriter::put folded over the column; state is (prev_, reps_, out)
RECURSIVE RLEPutAll(_, _, _, _)
RLEPutAll(col, prev, reps, out) ==
    IF col = <<>> THEN [prev |-> prev, reps |-> reps, out |-> out]
    ELSE LET value == Head(col) IN
         IF value # prev
         THEN RLEPutAll(Tail(col), value, 1,
                        IF reps # 0 THEN out \o <<reps, prev>> ELSE out)
         ELSE RLEPutAll(Tail(col), prev, (reps + 1) % WordMod, out)

\* an RLEStreamWriter whose commit writes nothing
RLEPairs_no_commit(col) == RLEPutAll(col, 0, 0, <<>>).out

\* RLEStreamWriter: all puts followed by commit/close, as (count, value) pairs
RLEPairs(col) ==
    LET st == RLEPutAll(col, 0, 0, <<>>) IN st.out \o <<st.reps, st.prev>>

RLEWrite(col) == Base128Write(RLEPairs(col))

\* ZigZagStreamWriter::put on a WordBits-bit two's complement value
ZigZagPut(value) ==
    IF value < WordMod \div 2
    THEN (2 * value) % WordMod
    ELSE (2 * (WordMod - value) - 1) % WordMod

ZigZagCol(col) == [i \in 1..Len(col) |-> ZigZagPut(col[i])]

\* DeltaStreamWriter::put folded over the column, prev_ starts at TVal()
DeltaCol(col) ==
    [i \in 1..Len(col) |->
        (col[i] - (IF i = 1 THEN 0 ELSE col[i - 1]) + WordMod) % WordMod]

\* page.cpp: DeltaRLETSWriter, Base128IdWriter, DeltaRLEOffWriter, RLELenWriter
DeltaRLETSWriter(col) == RLEWrite(DeltaCol(col))
Base128IdWriter(col) == Base128Write(col)
DeltaRLEOffWriter(col) == RLEWrite(ZigZagCol(DeltaCol(col)))
RLELenWriter(col) == RLEWrite(col)


(***************************************************************************)
(* Chunk codec: readers. A reader result is [ok, col, pos]: ok is FALSE    *)
(* when a read ran past the end of the bytes (StreamOutOfBounds), pos is   *)
(* the 1-based position of the next unread byte.                           *)
(***************************************************************************)
\* Base128Int::get from position p: acc |= (byte & 0x7F) << cnt
RECURSIVE Base128Get(_, _, _, _)
Base128Get(bytes, p, acc, cnt) ==
    IF p > Len(bytes) THEN [ok |-> FALSE, value |-> 0, pos |-> p]
    ELSE IF bytes[p] >= 128
    THEN Base128Get(bytes, p + 1, (acc + (bytes[p] % 128) * 2 ^ cnt) % WordMod, cnt + 7)
    ELSE [ok |-> TRUE, value |-> (acc + bytes[p] * 2 ^ cnt) % WordMod, pos |-> p + 1]

\* Base128StreamReader::next called n times from position pos
RECURSIVE Base128Read(_, _, _, _)
Base128Read(bytes, pos, n, out) ==
    IF n = 0 THEN [ok |-> TRUE, col |-> out, pos |-> pos]
    ELSE IF ~Base128Get(bytes, pos, 0, 0).ok THEN [ok |-> FALSE, col |-> out, pos |-> pos]
    ELSE Base128Read(bytes, Base128Get(bytes, pos, 0, 0).pos, n - 1,
                     Append(out, Base128Get(bytes, pos, 0, 0).value))

\* RLEStreamReader::next called n times; the state is (prev_, reps_)
RECURSIVE RLERead(_, _, _, _, _, _)
RLERead(bytes, pos, prev, reps, n, out) ==
    IF n = 0 THEN [ok |-> TRUE, col |-> out, pos |-> pos]
    ELSE IF reps # 0
    THEN RLERead(bytes, pos, prev, reps - 1, n - 1, Append(out, prev))
    ELSE IF ~Base128Read(bytes, pos, 2, <<>>).ok THEN [ok |-> FALSE, col |-> out, pos |-> pos]
    ELSE RLERead(bytes, Base128Read(bytes, pos, 2, <<>>).pos,
                 Base128Read(bytes, pos, 2, <<>>).col[2],
                 (Base128Read(bytes, pos, 2, <<>>).col[1] + WordMod - 1) % WordMod,
                 n - 1, Append(out, Base128Read(bytes, pos, 2, <<>>).col[2]))

\* ZigZagStreamReader::next on a signed WordBits-bit n: (n >> 1) ^ (-(n & 1)),
\* the shift being arithmetic
ZigZagGet(n) ==
    IF n % 2 = 1
    THEN WordMod - 1 - ((n \div 2) + (IF n >= WordMod \div 2 THEN WordMod \div 2 ELSE 0))
    ELSE (n \div 2) + (IF n >= WordMod \div 2 THEN WordMod \div 2 ELSE 0)

UnZigZagCol(col) == [i \in 1..Len(col) |-> ZigZagGet(col[i])]

\* DeltaStreamReader::next folded over the column, prev_ starts at TVal()
RECURSIVE UnDeltaCol(_, _)
UnDeltaCol(col, prev) ==
    IF col = <<>> THEN <<>>
    ELSE <<(prev + Head(col)) % WordMod>> \o UnDeltaCol(Tail(col), (prev + Head(col)) % WordMod)

\* a reader result with its column replaced
WithCol(r, col) == [ok |-> r.ok, col |-> col, pos |-> r.pos]

\* page.cpp: DeltaRLETSReader, Base128IdReader, RLELenReader, DeltaRLEOffReader
\* reading n values from position pos
DeltaRLETSReader(bytes, pos, n) ==
    WithCol(RLERead(bytes, pos, 0, 0, n, <<>>),
            UnDeltaCol(RLERead(bytes, pos, 0, 0, n, <<>>).col, 0))
Base128IdReader(bytes, pos, n) == Base128Read(bytes, pos, n, <<>>)
RLELenReader(bytes, pos, n) == RLERead(bytes, pos, 0, 0, n, <<>>)
DeltaRLEOffReader(bytes, pos, n) ==
    WithCol(RLERead(bytes, pos, 0, 0, n, <<>>),
            UnDeltaCol(UnZigZagCol(RLERead(bytes, pos, 0, 0, n, <<>>).col), 0))

(***************************************************************************)
(* Page                                                                    *)
(***************************************************************************)
Uint32Max == 2 ^ (WordBits \div 2) - 1
\* modulus of the 32-bit size arithmetic in complete_chunk / add_chunk
SizeMod == 2 ^ 16

PageBoundingBox ==
    [max_id |-> 0, min_id |-> Uint32Max,
     max_timestamp |-> AKU_MIN_TIMESTAMP, min_timestamp |-> AKU_MAX_TIMESTAMP]

\* PageHeader::PageHeader(count, length, page_id); mem maps an offset to the
\* object (entry or stream bytes) that starts there
PageHeader(count, length, page_id) ==
    [count |-> count, last_offset |-> length - 1, sync_count |-> 0,
     open_count |-> 0, close_count |-> 0, page_id |-> page_id,
     length |-> length, bbox |-> PageBoundingBox, histogram |-> <<>>,
     page_index |-> <<>>, mem |-> <<>>]

\* storing an object at an offset of the mapped region
MemPut(mem, offset, obj) ==
    [o \in (DOMAIN mem) \cup {offset} |-> IF o = offset THEN obj ELSE mem[o]]

\* page_index[index] = offset (index is 0-based as in the source)
IndexPut(page_index, index, offset) ==
    [i \in 1..Max2(Len(page_index), index + 1) |->
        IF i = index + 1 THEN offset
        ELSE IF i <= Len(page_index) THEN page_index[i] ELSE 0]

get_free_space(p) == p.last_offset - (SizeofPageHeader + SizeofEntryOffset * p.count)

update_bounding_box(bbox, param, time) ==
    [max_id |-> IF param > bbox.max_id THEN param ELSE bbox.max_id,
     min_id |-> IF param < bbox.min_id THEN param ELSE bbox.min_id,
     max_timestamp |-> IF time > bbox.max_timestamp THEN time ELSE bbox.max_timestamp,
     min_timestamp |-> IF time < bbox.min_timestamp THEN time ELSE bbox.min_timestamp]

\* reuse without histogram.size = 0
reuse_keep_histogram(p) ==
    [p EXCEPT !.sync_count = 0, !.count = 0, !.open_count = @ + 1,
              !.last_offset = p.length - 1, !.bbox = PageBoundingBox,
              !.page_index = <<>>, !.mem = <<>>]

\* reuse that also counts a close
reuse_counts_close(p) ==
    [p EXCEPT !.sync_count = 0, !.count = 0, !.open_count = @ + 1, !.close_count = @ + 1,
              !.last_offset = p.length - 1, !.bbox = PageBoundingBox,
              !.histogram = <<>>, !.page_index = <<>>, !.mem = <<>>]

\* PageHeader::reuse; the index slots and bytes left behind are unreachable
\* (every reader is bounded by sync_count), so the model drops them
reuse(p) ==
    [p EXCEPT !.sync_count = 0, !.count = 0, !.open_count = @ + 1,
              !.last_offset = p.length - 1, !.bbox = PageBoundingBox,
              !.histogram = <<>>, !.page_index = <<>>, !.mem = <<>>]

\* close without close_count++
close_no_count(p) == p

\* PageHeader::close
PageHeader_close(p) == [p EXCEPT !.close_count = @ + 1]

\* add_entry without the check of range.length
add_entry_any_length(p, param, timestamp, range) ==
    LET SPACE_REQUIRED == SizeofEntry + range.length + SizeofEntryOffset
        ENTRY_SIZE == SizeofEntry + range.length
        free_slot == p.last_offset - ENTRY_SIZE
        entry == [kind |-> "entry", param_id |-> param, time |-> timestamp,
                  length |-> range.length, value |-> range.value]
    IN  IF SPACE_REQUIRED > get_free_space(p) THEN [page |-> p, status |-> "OVERFLOW"]
        ELSE [page |-> [p EXCEPT !.mem = MemPut(p.mem, free_slot, entry),
                                 !.last_offset = free_slot,
                                 !.page_index = IndexPut(p.page_index, p.count, free_slot),
                                 !.count = @ + 1,
                                 !.bbox = update_bounding_box(p.bbox, param, timestamp)],
              status |-> "SUCCESS"]

\* PageHeader::add_entry; range is [length, value]
add_entry(p, param, timestamp, range) ==
    LET SPACE_REQUIRED == SizeofEntry + range.length + SizeofEntryOffset
        ENTRY_SIZE == SizeofEntry + range.length
        free_slot == p.last_offset - ENTRY_SIZE
        entry == [kind |-> "entry", param_id |-> param, time |-> timestamp,
                  length |-> range.length, value |-> range.value]
    IN  IF range.length = 0 THEN [page |-> p, status |-> "BAD_DATA"]
        ELSE IF SPACE_REQUIRED > get_free_space(p) THEN [page |-> p, status |-> "OVERFLOW"]
        ELSE [page |-> [p EXCEPT !.mem = MemPut(p.mem, free_slot, entry),
                                 !.last_offset = free_slot,
                                 !.page_index = IndexPut(p.page_index, p.count, free_slot),
                                 !.count = @ + 1,
                                 !.bbox = update_bounding_box(p.bbox, param, timestamp)],
              status |-> "SUCCESS"]

\* PageHeader::add_chunk; range is a byte sequence
add_chunk(p, range, free_space_required) ==
    LET SPACE_REQUIRED == (Len(range) + free_space_required) % SizeMod
        SPACE_NEEDED == Len(range)
        free_slot == p.last_offset - SPACE_NEEDED
    IN  IF get_free_space(p) < SPACE_REQUIRED THEN [page |-> p, status |-> "OVERFLOW"]
        ELSE [page |-> [p EXCEPT !.mem = MemPut(p.mem, free_slot,
                                                [kind |-> "bytes", bytes |-> range]),
                                 !.last_offset = free_slot],
              status |-> "SUCCESS"]

\* read_entry(offset)->time; an offset that holds no entry yields the garbage
\* value g (the bytes found there, read as an aku_Entry)
read_entry_time(p, offset, g) ==
    IF offset \in DOMAIN p.mem /\ p.mem[offset].kind = "entry"
    THEN p.mem[offset].time ELSE g

\* gfx::timsort of the histogram by timestamp (stable), as insertion sort
RECURSIVE InsertByTimestamp(_, _)
InsertByTimestamp(sorted, h) ==
    IF sorted = <<>> THEN <<h>>
    ELSE IF h.timestamp < Head(sorted).timestamp THEN <<h>> \o sorted
    ELSE <<Head(sorted)>> \o InsertByTimestamp(Tail(sorted), h)

RECURSIVE timsort(_)
timsort(hist) ==
    IF hist = <<>> THEN <<>>
    ELSE InsertByTimestamp(timsort(SubSeq(hist, 1, Len(hist) - 1)), hist[Len(hist)])

\* sync_next_index without the sync_count >= count check
sync_next_index_unchecked(p, offset, rand_val, sort_histogram, g) ==
    IF ~sort_histogram
    THEN LET index == p.sync_count
             sc == p.sync_count + 1
             h == [index |-> index, timestamp |-> read_entry_time(p, offset, g)]
             rindex == rand_val % sc
             hist == IF Len(p.histogram) < AKU_HISTOGRAM_SIZE
                     THEN Append(p.histogram, h)
                     ELSE IF rindex < Len(p.histogram)
                          THEN [p.histogram EXCEPT ![rindex + 1] = h]
                          ELSE p.histogram
         IN [page |-> [p EXCEPT !.sync_count = sc,
                                !.page_index = IndexPut(p.page_index, index, offset),
                                !.histogram = hist],
             panic |-> FALSE]
    ELSE [page |-> [p EXCEPT !.histogram = timsort(p.histogram)], panic |-> FALSE]

\* PageHeader::sync_next_index
sync_next_index(p, offset, rand_val, sort_histogram, g) ==
    IF ~sort_histogram
    THEN IF p.sync_count >= p.count
         THEN [page |-> p, panic |-> TRUE]
         ELSE LET index == p.sync_count
                  sc == p.sync_count + 1
                  h == [index |-> index, timestamp |-> read_entry_time(p, offset, g)]
                  rindex == rand_val % sc
                  hist == IF Len(p.histogram) < AKU_HISTOGRAM_SIZE
                          THEN Append(p.histogram, h)
                          ELSE IF rindex < Len(p.histogram)
                               THEN [p.histogram EXCEPT ![rindex + 1] = h]
                               ELSE p.histogram
              IN [page |-> [p EXCEPT !.sync_count = sc,
                                     !.page_index = IndexPut(p.page_index, index, offset),
                                     !.histogram = hist],
                  panic |-> FALSE]
    ELSE [page |-> [p EXCEPT !.histogram = timsort(p.histogram)], panic |-> FALSE]

\* boost::crc_32_type over the bytes stored in [begin, end), as a polynomial
\* hash of the byte streams found there in address order
RECURSIVE HashBytes(_, _)
HashBytes(h, bytes) ==
    IF bytes = <<>> THEN h
    ELSE HashBytes((h * 31 + Head(bytes) + 1) % 65521, Tail(bytes))

RECURSIVE RegionBytes(_, _, _)
RegionBytes(p, begin, end) ==
    LET offs == {o \in DOMAIN p.mem : o >= begin /\ o < end /\ p.mem[o].kind = "bytes"}
    IN  IF offs = {} THEN <<>>
        ELSE LET o == CHOOSE x \in offs : \A y \in offs : x <= y
             IN p.mem[o].bytes \o RegionBytes(p, o + 1, end)

checksum(p, begin, end) == HashBytes(0, RegionBytes(p, begin, end))

\* one more add_chunk of the body of complete_chunk: skipped (break) once a
\* previous one has failed
add_chunk_next(c, range, free_space_required) ==
    IF c.status # "SUCCESS" THEN c ELSE add_chunk(c.page, range, free_space_required)

\* where complete_chunk stands after a sync_next_index: the page, the status
\* of the add_entry before it, and whether sync_next_index panicked
complete_chunk_step(synced, status) ==
    [page |-> synced.page, status |-> status, panic |-> synced.panic]

\* sync_next_index(last_offset, rand(), false) after an add_entry whose status
\* complete_chunk does not look at; e is what add_entry returned
sync_sentinel(e, rand_val, g) ==
    complete_chunk_step(sync_next_index(e.page, e.page.last_offset, rand_val, FALSE, g),
                        e.status)

\* add_entry of a sentinel followed by its sync_next_index; c is the result
\* of the previous step
add_sentinel(c, param, timestamp, head, rand_val, g) ==
    IF c.panic THEN c
    ELSE sync_sentinel(add_entry(c.page, param, timestamp, head), rand_val, g)

\* the final sync_next_index(0, 0, true) of complete_chunk
sort_histogram(c) ==
    IF c.panic THEN c
    ELSE [page |-> sync_next_index(c.page, 0, 0, TRUE, 0).page,
          status |-> c.status, panic |-> FALSE]

\* the head of complete_chunk: checksum, ChunkDesc and the two sentinels; c is
\* the result of the last add_chunk
complete_chunk_head(c, data, r1, r2, g) ==
    IF c.status # "SUCCESS" THEN [page |-> c.page, status |-> c.status, panic |-> FALSE]
    ELSE LET begin == c.page.last_offset
             end == IF c.page.count = 0 THEN c.page.length - 1
                    ELSE c.page.page_index[c.page.count]
             head == [length |-> SizeofChunkDesc,
                      value |-> [n_elements |-> Len(data.lengths), begin_offset |-> begin,
                                 end_offset |-> end,
                                 checksum |-> checksum(c.page, begin, end)]]
         IN  sort_histogram(
                 add_sentinel(
                     add_sentinel([page |-> c.page, status |-> c.status, panic |-> FALSE],
                                  AKU_CHUNK_BWD_ID, data.timestamps[1], head, r1, g),
                     AKU_CHUNK_FWD_ID, data.timestamps[Len(data.timestamps)], head, r2, g))

\* the body of complete_chunk: the four streams go to the page in the order
\* offsets, lengths, paramids, timestamps; the size estimate loses the size of
\* the offset stream twice, as in the source
complete_chunk_body(p, data, timestamp_stream, paramid_stream, offset_stream, length_stream, r1, r2, g) ==
    LET est0 == Len(timestamp_stream) + Len(paramid_stream)
                    + Len(offset_stream) + Len(length_stream)
        est1 == (est0 - Len(offset_stream) + SizeMod) % SizeMod
        est2 == (est1 - Len(offset_stream) + SizeMod) % SizeMod
        est3 == (est2 - Len(paramid_stream) + SizeMod) % SizeMod
    IN  complete_chunk_head(
            add_chunk_next(
                add_chunk_next(
                    add_chunk_next(add_chunk(p, offset_stream, est0), length_stream, est1),
                    paramid_stream, est2),
                timestamp_stream, est3),
            data, r1, r2, g)

\* PageHeader::complete_chunk; data is [timestamps, paramids, offsets, lengths],
\* r1 and r2 are the two values drawn from Rand, g the garbage timestamp read
\* when a sentinel was not written; the result is [page, status, panic]
complete_chunk(p, data, r1, r2, g) ==
    complete_chunk_body(p, data, DeltaRLETSWriter(data.timestamps),
                        Base128IdWriter(data.paramids), DeltaRLEOffWriter(data.offsets),
                        RLELenWriter(data.lengths), r1, r2, g)

(***************************************************************************)
(* Sequencer                                                               *)
(***************************************************************************)
TimeSeriesValue(ts, id, value) == [ts |-> ts, id |-> id, value |-> value]

\* operator < of TimeSeriesValue: time order (timestamp, paramid)
TimeLess(lhs, rhs) == lhs.ts < rhs.ts \/ (lhs.ts = rhs.ts /\ lhs.id < rhs.id)

\* chunk_order_LT: chunk order (paramid, timestamp)
chunk_order_LT(lhs, rhs) == lhs.id < rhs.id \/ (lhs.id = rhs.id /\ lhs.ts < rhs.ts)

\* The binary search of std::lower_bound over [first, first + len) of a range
\* whose i-th element answers comp(element, value) with bits[i]; the result
\* is a 1-based position, Len(bits) + 1 standing for end()
RECURSIVE LowerBoundBits(_, _, _)
LowerBoundBits(bits, first, len) ==
    IF len <= 0 THEN first
    ELSE LET half == len \div 2
             middle == first + half
         IN  IF bits[middle]
             THEN LowerBoundBits(bits, middle + 1, len - half - 1)
             ELSE LowerBoundBits(bits, first, half)

\* std::lower_bound(run.begin(), run.end(), key) with operator <
lower_bound(run, key) ==
    LowerBoundBits([i \in 1..Len(run) |-> TimeLess(run[i], key)], 1, Len(run))

\* std::upper_bound(run.begin(), run.end(), key) with operator <
upper_bound(run, key) ==
    LowerBoundBits([i \in 1..Len(run) |-> ~TimeLess(key, run[i])], 1, Len(run))

Sequencer ==
    [runs_ |-> <<>>, ready_ |-> <<>>, top_timestamp_ |-> 0,
     checkpoint_ |-> 0, sequence_number_ |-> 0]

get_checkpoint_(ts) == ts \div window_size_
get_timestamp_(cp) == cp * window_size_

\* the key of the split one timestamp after old_top
checkpoint_key_after_old_top(old_top) == TimeSeriesValue(old_top + 1, AKU_LIMITS_MAX_ID, 0)

\* make_checkpoint_: the key std::lower_bound looks for in each run
checkpoint_key(old_top) == TimeSeriesValue(old_top, AKU_LIMITS_MAX_ID, 0)

\* the loop of make_checkpoint_ over runs_: what goes to new_runs and to ready_
RECURSIVE SplitRuns(_, _)
SplitRuns(runs, old_top) ==
    IF runs = <<>> THEN [new_runs |-> <<>>, ready |-> <<>>]
    ELSE LET sorted_run == Head(runs)
             rest == SplitRuns(Tail(runs), old_top)
             it == lower_bound(sorted_run, checkpoint_key(old_top))
         IN  IF it = 1
             THEN [new_runs |-> <<sorted_run>> \o rest.new_runs, ready |-> rest.ready]
             ELSE IF it = Len(sorted_run) + 1
             THEN [new_runs |-> rest.new_runs, ready |-> <<sorted_run>> \o rest.ready]
             ELSE [new_runs |-> <<SubSeq(sorted_run, it, Len(sorted_run))>> \o rest.new_runs,
                   ready |-> <<SubSeq(sorted_run, 1, it - 1)>> \o rest.ready]

ReadySize(ready) == SeqSum([i \in 1..Len(ready) |-> Len(ready[i])])

\* make_checkpoint_ after its loop, without std::swap(runs_, new_runs)
make_checkpoint_keep_runs(s, new_checkpoint, flag, split) ==
    IF ReadySize(s.ready_ \o split.ready) < c_threshold_
    THEN [seq |-> [s EXCEPT !.checkpoint_ = new_checkpoint,
                            !.runs_ = s.runs_ \o s.ready_ \o split.ready,
                            !.ready_ = <<>>,
                            !.sequence_number_ = flag + 1],
          flag |-> flag + 1, panic |-> FALSE]
    ELSE [seq |-> [s EXCEPT !.checkpoint_ = new_checkpoint,
                            !.ready_ = s.ready_ \o split.ready,
                            !.sequence_number_ = flag],
          flag |-> flag, panic |-> FALSE]

\* make_checkpoint_ after its loop, without the store to checkpoint_
make_checkpoint_keep_checkpoint(s, new_checkpoint, flag, split) ==
    IF ReadySize(s.ready_ \o split.ready) < c_threshold_
    THEN [seq |-> [s EXCEPT !.runs_ = split.new_runs \o s.ready_ \o split.ready,
                            !.ready_ = <<>>,
                            !.sequence_number_ = flag + 1],
          flag |-> flag + 1, panic |-> FALSE]
    ELSE [seq |-> [s EXCEPT !.runs_ = split.new_runs,
                            !.ready_ = s.ready_ \o split.ready,
                            !.sequence_number_ = flag],
          flag |-> flag, panic |-> FALSE]

\* make_checkpoint_ after its loop, without the second fetch_add of the revert
make_checkpoint_revert_no_toggle(s, new_checkpoint, flag, split) ==
    IF ReadySize(s.ready_ \o split.ready) < c_threshold_
    THEN [seq |-> [s EXCEPT !.checkpoint_ = new_checkpoint,
                            !.runs_ = split.new_runs \o s.ready_ \o split.ready,
                            !.ready_ = <<>>,
                            !.sequence_number_ = flag],
          flag |-> flag, panic |-> FALSE]
    ELSE [seq |-> [s EXCEPT !.checkpoint_ = new_checkpoint,
                            !.runs_ = split.new_runs,
                            !.ready_ = s.ready_ \o split.ready,
                            !.sequence_number_ = flag],
          flag |-> flag, panic |-> FALSE]

\* make_checkpoint_ after its loop over runs_: the swap of runs_, and the
\* revert when ready_ holds fewer than c_threshold_ samples; split is what the
\* loop left in new_runs and added to ready_
make_checkpoint_swap(s, new_checkpoint, flag, split) ==
    IF ReadySize(s.ready_ \o split.ready) < c_threshold_
    THEN [seq |-> [s EXCEPT !.checkpoint_ = new_checkpoint,
                            !.runs_ = split.new_runs \o s.ready_ \o split.ready,
                            !.ready_ = <<>>,
                            !.sequence_number_ = flag + 1],
          flag |-> flag + 1, panic |-> FALSE]
    ELSE [seq |-> [s EXCEPT !.checkpoint_ = new_checkpoint,
                            !.runs_ = split.new_runs,
                            !.ready_ = s.ready_ \o split.ready,
                            !.sequence_number_ = flag],
          flag |-> flag, panic |-> FALSE]

\* Sequencer::make_checkpoint_
make_checkpoint_(s, new_checkpoint) ==
    IF (s.sequence_number_ + 1) % 2 # 0
    THEN make_checkpoint_swap(s, new_checkpoint, s.sequence_number_ + 1,
                              SplitRuns(s.runs_, get_timestamp_(s.checkpoint_)))
    ELSE [seq |-> [s EXCEPT !.sequence_number_ = @ + 1],
          flag |-> s.sequence_number_ + 1, panic |-> TRUE]

\* check_timestamp_ after make_checkpoint_ returned mc: top_timestamp_ = ts
checkpoint_made(mc, ts) ==
    [seq |-> IF mc.panic THEN mc.seq ELSE [mc.seq EXCEPT !.top_timestamp_ = ts],
     status |-> "SUCCESS", flag |-> mc.flag, panic |-> mc.panic]

\* check_timestamp_ rejecting a write that is exactly window_size_ late
check_timestamp_inclusive(s, ts) ==
    IF ts < s.top_timestamp_
    THEN [seq |-> s,
          status |-> IF s.top_timestamp_ - ts >= window_size_ THEN "LATE_WRITE" ELSE "SUCCESS",
          flag |-> 0, panic |-> FALSE]
    ELSE IF get_checkpoint_(ts) > s.checkpoint_
    THEN checkpoint_made(make_checkpoint_(s, get_checkpoint_(ts)), ts)
    ELSE [seq |-> [s EXCEPT !.top_timestamp_ = ts],
          status |-> "SUCCESS", flag |-> 0, panic |-> FALSE]

\* check_timestamp_ returning the generation when it makes no checkpoint
check_timestamp_returns_generation(s, ts) ==
    IF ts < s.top_timestamp_
    THEN [seq |-> s,
          status |-> IF s.top_timestamp_ - ts > window_size_ THEN "LATE_WRITE" ELSE "SUCCESS",
          flag |-> s.sequence_number_, panic |-> FALSE]
    ELSE IF get_checkpoint_(ts) > s.checkpoint_
    THEN checkpoint_made(make_checkpoint_(s, get_checkpoint_(ts)), ts)
    ELSE [seq |-> [s EXCEPT !.top_timestamp_ = ts],
          status |-> "SUCCESS", flag |-> s.sequence_number_, panic |-> FALSE]

\* check_timestamp_ storing the timestamp of a late write it accepts into
\* top_timestamp_
check_timestamp_lowers_top(s, ts) ==
    IF ts < s.top_timestamp_
    THEN [seq |-> IF s.top_timestamp_ - ts > window_size_ THEN s
                  ELSE [s EXCEPT !.top_timestamp_ = ts],
          status |-> IF s.top_timestamp_ - ts > window_size_ THEN "LATE_WRITE" ELSE "SUCCESS",
          flag |-> 0, panic |-> FALSE]
    ELSE IF get_checkpoint_(ts) > s.checkpoint_
    THEN checkpoint_made(make_checkpoint_(s, get_checkpoint_(ts)), ts)
    ELSE [seq |-> [s EXCEPT !.top_timestamp_ = ts],
          status |-> "SUCCESS", flag |-> 0, panic |-> FALSE]

\* Sequencer::check_timestamp_
check_timestamp_(s, ts) ==
    IF ts < s.top_timestamp_
    THEN [seq |-> s,
          status |-> IF s.top_timestamp_ - ts > window_size_ THEN "LATE_WRITE" ELSE "SUCCESS",
          flag |-> 0, panic |-> FALSE]
    ELSE IF get_checkpoint_(ts) > s.checkpoint_
    THEN checkpoint_made(make_checkpoint_(s, get_checkpoint_(ts)), ts)
    ELSE [seq |-> [s EXCEPT !.top_timestamp_ = ts],
          status |-> "SUCCESS", flag |-> 0, panic |-> FALSE]

\* top_element_more(x, key): key->back() < x->back()
top_element_more(x, y) == TimeLess(y[Len(y)], x[Len(x)])

\* the place std::lower_bound(runs_, key_, top_element_more) finds for value:
\* a 1-based position, Len(runs) + 1 standing for end()
insert_position(runs, value) ==
    LowerBoundBits([i \in 1..Len(runs) |-> top_element_more(runs[i], <<value>>)],
                   1, Len(runs))

\* add after check_timestamp_, appending to the first run without searching
\* for a fitting one
add_to_first_run(ct, value) ==
    IF ct.panic \/ ct.status # "SUCCESS"
    THEN [seq |-> ct.seq, status |-> ct.status, lock |-> ct.flag, panic |-> ct.panic]
    ELSE [seq |-> [ct.seq EXCEPT !.runs_ =
                      IF ct.seq.runs_ = <<>> THEN <<<<value>>>>
                      ELSE [ct.seq.runs_ EXCEPT ![1] = Append(@, value)]],
          status |-> "SUCCESS", lock |-> ct.flag, panic |-> FALSE]

\* Sequencer::add after check_timestamp_ returned ct: the value goes to the
\* run lower_bound finds, or to a new run
add_to_run(ct, value) ==
    IF ct.panic \/ ct.status # "SUCCESS"
    THEN [seq |-> ct.seq, status |-> ct.status, lock |-> ct.flag, panic |-> ct.panic]
    ELSE [seq |-> [ct.seq EXCEPT !.runs_ =
                      IF insert_position(ct.seq.runs_, value) = Len(ct.seq.runs_) + 1
                      THEN Append(ct.seq.runs_, <<value>>)
                      ELSE [ct.seq.runs_ EXCEPT
                               ![insert_position(ct.seq.runs_, value)] = Append(@, value)]],
          status |-> "SUCCESS", lock |-> ct.flag, panic |-> FALSE]

\* Sequencer::add: the result is [seq, status, lock, panic]
add(s, value) == add_to_run(check_timestamp_(s, value.ts), value)

AKU_CURSOR_DIR_FORWARD == 0
AKU_CURSOR_DIR_BACKWARD == 1

Reverse(run) == [i \in 1..Len(run) |-> run[Len(run) + 1 - i]]

\* RunIter::make_range: begin()..end() forward, rbegin()..rend() backward
make_range(run, dir) == IF dir = AKU_CURSOR_DIR_FORWARD THEN run ELSE Reverse(run)

\* x leaves the heap before y: TimeOrderMergePredicate orders the heap so that
\* top() is the smallest key forward and the largest key backward
MergeBefore(x, y, dir) ==
    IF dir = AKU_CURSOR_DIR_FORWARD THEN TimeLess(x, y) ELSE TimeLess(y, x)

\* every order in which the items of a heap can be iterated
Orderings(S) ==
    {f \in [1..Cardinality(S) -> S] : \A i, j \in 1..Cardinality(S) : i # j => f[i] # f[j]}

\* The loop of kway_merge. pos[i] is the position in ranges[i] of the element
\* of run i that sits in the heap (past the end: run i has no item in the
\* heap); limit is the number of elements the consumer accepts before it
\* returns false. The heap's choice among equal keys and its iteration order
\* are not fixed by its interface: every choice is an outcome.
RECURSIVE kway_merge_loop(_, _, _, _, _)
kway_merge_loop(ranges, pos, out, limit, dir) ==
    LET heap == {i \in 1..Len(ranges) : pos[i] <= Len(ranges[i])}
        item(i) == ranges[i][pos[i]]
    IN  IF heap = {} THEN {[out |-> out, runs |-> <<>>]}
        ELSE IF Len(out) >= limit
        THEN {[out |-> out,
               runs |-> [k \in 1..Cardinality(heap) |->
                            SubSeq(ranges[f[k]], pos[f[k]], Len(ranges[f[k]]))]]
                : f \in Orderings(heap)}
        ELSE UNION {kway_merge_loop(ranges, [pos EXCEPT ![i] = @ + 1],
                                    Append(out, item(i)), limit, dir)
                        : i \in {t \in heap : \A j \in heap : ~MergeBefore(item(j), item(t), dir)}}

\* kway_merge reading every run from begin() to end() whatever the direction
kway_merge_forward_ranges(runs, limit, dir) ==
    kway_merge_loop([i \in 1..Len(runs) |-> make_range(runs[i], AKU_CURSOR_DIR_FORWARD)],
                    [i \in 1..Len(runs) |-> 1], <<>>, limit, dir)

\* kway_merge<TimeOrderMergePredicate, dir>(runs, cons): the set of outcomes,
\* each with the elements passed to the consumer and the new content of runs
kway_merge(runs, limit, dir) ==
    kway_merge_loop([i \in 1..Len(runs) |-> make_range(runs[i], dir)],
                    [i \in 1..Len(runs) |-> 1], <<>>, limit, dir)

\* CompressionUtil::convert_from_time_order: group by paramid, keeping the
\* time order inside each group (a stable sort by paramid)
RECURSIVE InsertByParamId(_, _)
InsertByParamId(sorted, v) ==
    IF sorted = <<>> THEN <<v>>
    ELSE IF v.id < Head(sorted).id THEN <<v>> \o sorted
    ELSE <<Head(sorted)>> \o InsertByParamId(Tail(sorted), v)

RECURSIVE convert_from_time_order(_)
convert_from_time_order(rows) ==
    IF rows = <<>> THEN <<>>
    ELSE InsertByParamId(convert_from_time_order(SubSeq(rows, 1, Len(rows) - 1)),
                         rows[Len(rows)])

\* the chunk handed to PageHeader::complete_chunk: one column per field; the
\* value of a sample travels in the offsets column with a length of one double
ChunkHeader(rows) ==
    [timestamps |-> [i \in 1..Len(rows) |-> rows[i].ts],
     paramids |-> [i \in 1..Len(rows) |-> rows[i].id],
     offsets |-> [i \in 1..Len(rows) |-> rows[i].value],
     lengths |-> [i \in 1..Len(rows) |-> SizeofDouble]]

GarbageTs == {AKU_MIN_TIMESTAMP, AKU_MAX_TIMESTAMP}

\* every result complete_chunk can produce for the chunk
complete_chunk_outcomes(p, data) ==
    {complete_chunk(p, data, r1, r2, g) : r1 \in RandVals, r2 \in RandVals, g \in GarbageTs}

\* the end of merge_and_compress without sequence_number_.fetch_add(1)
merge_and_compress_finish_no_toggle(s, ready, page, status) ==
    [seq |-> [s EXCEPT !.runs_ = s.runs_ \o ready, !.ready_ = <<>>],
     page |-> page, status |-> status, panic |-> FALSE]

\* the end of merge_and_compress clearing ready_ without moving its runs to
\* runs_
merge_and_compress_finish_drop(s, ready, page, status) ==
    [seq |-> [s EXCEPT !.ready_ = <<>>, !.sequence_number_ = @ + 1],
     page |-> page, status |-> status, panic |-> FALSE]

\* the end of merge_and_compress: what is left in ready_ goes back to runs_
\* and the generation becomes even again
merge_and_compress_finish(s, ready, page, status) ==
    [seq |-> [s EXCEPT !.runs_ = s.runs_ \o ready, !.ready_ = <<>>,
                       !.sequence_number_ = @ + 1],
     page |-> page, status |-> status, panic |-> FALSE]

\* the while(!ready_.empty()) loop of merge_and_compress
RECURSIVE merge_and_compress_loop(_, _, _, _)
merge_and_compress_loop(s, ready, page, enforce_write) ==
    IF ready = <<>> THEN {merge_and_compress_finish(s, ready, page, "SUCCESS")}
    ELSE UNION {
        IF enforce_write \/ Len(m.out) >= c_threshold_
        THEN UNION {
                IF cc.panic
                THEN {[seq |-> [s EXCEPT !.ready_ = m.runs], page |-> cc.page,
                       status |-> cc.status, panic |-> TRUE]}
                ELSE IF cc.status # "SUCCESS"
                THEN {merge_and_compress_finish(s, Append(m.runs, m.out), cc.page, cc.status)}
                ELSE merge_and_compress_loop(s, m.runs, cc.page, enforce_write)
              : cc \in complete_chunk_outcomes(page, ChunkHeader(convert_from_time_order(m.out)))}
        ELSE {merge_and_compress_finish(s, Append(m.runs, m.out), page, "SUCCESS")}
      : m \in kway_merge(ready, c_threshold_, AKU_CURSOR_DIR_FORWARD)}

\* Sequencer::merge_and_compress: the set of outcomes [seq, page, status, panic]
merge_and_compress(s, target, enforce_write) ==
    IF s.sequence_number_ % 2 = 0
    THEN {[seq |-> s, page |-> target, status |-> "BUSY", panic |-> FALSE]}
    ELSE IF Len(s.ready_) = 0
    THEN {[seq |-> s, page |-> target, status |-> "NO_DATA", panic |-> FALSE]}
    ELSE merge_and_compress_loop(s, s.ready_, target, enforce_write)

\* Sequencer::reset
reset(s) ==
    [s EXCEPT !.ready_ = s.ready_ \o s.runs_, !.runs_ = <<>>, !.sequence_number_ = 1]

\* Sequencer::close
Sequencer_close(s, target) ==
    LET r == reset(s) IN
    IF r.ready_ # <<>> THEN merge_and_compress(r, target, TRUE)
    ELSE {[seq |-> r, page |-> target, status |-> "SUCCESS", panic |-> FALSE]}

\* Sequencer::get_window
get_window(s) ==
    <<IF s.top_timestamp_ > window_size_ THEN s.top_timestamp_ - window_size_
      ELSE s.top_timestamp_,
      s.sequence_number_>>

\* filter cutting the run below the upper bound instead of after it
filter_exclusive(run, q) ==
    IF run = <<>> THEN <<>>
    ELSE LET begin == lower_bound(run, TimeSeriesValue(q.lowerbound, 0, 0))
             end == lower_bound(run, TimeSeriesValue(q.upperbound, 0, 0))
         IN  <<SubSeq(run, begin, Max2(end, begin) - 1)>>

\* Sequencer::filter: the result run appended to results (none for an empty run)
filter(run, q) ==
    IF run = <<>> THEN <<>>
    ELSE LET begin == lower_bound(run, TimeSeriesValue(q.lowerbound, 0, 0))
             end == upper_bound(run, TimeSeriesValue(q.upperbound, WordMod - 1, 0))
         IN  <<SubSeq(run, begin, end - 1)>>

\* Sequencer::search between the two reads of sequence_number_: filter on
\* every run, then kway_merge into the query; the set of outcomes [status, out]
search_scan(runs_, q) ==
    LET filtered == Flatten([i \in 1..Len(runs_) |-> filter(runs_[i], q)])
        dir == IF q.backward THEN AKU_CURSOR_DIR_BACKWARD ELSE AKU_CURSOR_DIR_FORWARD
    IN  {[status |-> "SUCCESS",
          out |-> SelectSeq(m.out, LAMBDA v : v.id \in q.ids)]
            : m \in kway_merge(filtered, ReadySize(filtered), dir)}

\* Sequencer::search without interference: the set of outcomes [status, out];
\* q is [lowerbound, upperbound, ids, backward], ids the series the query
\* filter lets through
Sequencer_search(s, q, sequence_number) ==
    IF s.sequence_number_ % 2 # 0 \/ sequence_number # s.sequence_number_
    THEN {[status |-> "BUSY", out |-> <<>>]}
    ELSE search_scan(s.runs_, q)

(***************************************************************************)
(* PageHeader::search. A query is [lowerbound, upperbound, ids, direction], *)
(* ids being the series param_pred matches. A search range is [begin, end, *)
(* error]. g is the timestamp and gid the paramid found by a read outside  *)
(* the decoded columns or at an offset that holds no entry.                *)
(***************************************************************************)
GarbageIds == {0, 1}

\* size of a page of virtual memory (get_page_size)
OsPageSize == 4096

\* validate_query
validate_query(query) ==
    /\ query.direction \in {AKU_CURSOR_DIR_BACKWARD, AKU_CURSOR_DIR_FORWARD}
    /\ query.upperbound >= query.lowerbound

\* key_ of SearchAlgorithm
search_key(query) ==
    IF query.direction = AKU_CURSOR_DIR_BACKWARD THEN query.upperbound ELSE query.lowerbound

\* read_entry(page_index[index]) for a 0-based index
search_entry(p, index, g) ==
    IF /\ index + 1 \in DOMAIN p.page_index
       /\ p.page_index[index + 1] \in DOMAIN p.mem
       /\ p.mem[p.page_index[index + 1]].kind = "entry"
    THEN p.mem[p.page_index[index + 1]]
    ELSE [kind |-> "entry", param_id |-> g, time |-> g, length |-> 0,
          value |-> [n_elements |-> 0, begin_offset |-> 0, end_offset |-> 0, checksum |-> g]]

\* the range SearchAlgorithm starts with
search_range(p) ==
    [begin |-> 0, end |-> IF p.sync_count # 0 THEN p.sync_count - 1 ELSE 0, error |-> "NONE"]

\* SearchAlgorithm::fast_path: [done, status, range]
fast_path(p, query) ==
    IF p.sync_count = 0
    THEN [done |-> TRUE, status |-> "COMPLETE", range |-> search_range(p)]
    ELSE IF ~validate_query(query)
    THEN [done |-> TRUE, status |-> "BAD_ARG", range |-> search_range(p)]
    ELSE IF search_key(query) > p.bbox.max_timestamp
    THEN IF query.direction = AKU_CURSOR_DIR_BACKWARD
         THEN [done |-> FALSE, status |-> "NONE",
               range |-> [search_range(p) EXCEPT !.begin = search_range(p).end]]
         ELSE [done |-> TRUE, status |-> "COMPLETE", range |-> search_range(p)]
    ELSE IF search_key(query) < p.bbox.min_timestamp
    THEN IF query.direction # AKU_CURSOR_DIR_BACKWARD
         THEN [done |-> FALSE, status |-> "NONE",
               range |-> [search_range(p) EXCEPT !.end = search_range(p).begin]]
         ELSE [done |-> TRUE, status |-> "COMPLETE", range |-> search_range(p)]
    ELSE [done |-> FALSE, status |-> "NONE", range |-> search_range(p)]

\* the entry std::lower_bound finds in the histogram, stepped back by one when
\* it lies above the key; Len(h) + 1 stands for end()
histogram_lower(h, key) ==
    LowerBoundBits([i \in 1..Len(h) |-> h[i].timestamp < key], 1, Len(h))

\* the entry std::upper_bound finds in the histogram
histogram_upper(h, key) ==
    LowerBoundBits([i \in 1..Len(h) |-> ~(key < h[i].timestamp)], 1, Len(h))

\* range_.begin after SearchAlgorithm::histogram, lower being histogram_lower
histogram_begin(h, key, lower, range) ==
    IF lower = Len(h) + 1 THEN range.begin
    ELSE IF lower # 1 /\ h[lower].timestamp > key THEN h[lower - 1].index
    ELSE h[lower].index

\* range_.end after SearchAlgorithm::histogram, upper being histogram_upper
histogram_end(h, upper, range) ==
    IF upper = Len(h) + 1 THEN range.end ELSE h[upper].index

\* SearchAlgorithm::histogram
histogram(p, key, range) ==
    [begin |-> histogram_begin(p.histogram, key, histogram_lower(p.histogram, key), range),
     end |-> histogram_end(p.histogram, histogram_upper(p.histogram, key), range),
     error |-> range.error]

\* SearchRange::is_small: both entries lie in one page of virtual memory; the
\* mapping starts on a page boundary, read_entry_at returns 0 past count
is_small(p, range) ==
    (IF range.begin < p.count THEN (p.page_index[range.begin + 1] \div OsPageSize) + 1 ELSE 0)
        = (IF range.end < p.count THEN (p.page_index[range.end + 1] \div OsPageSize) + 1 ELSE 0)

\* the loop of SearchAlgorithm::interpolation; st is
\* [range, lower, upper, state, err, steps], lower and upper being
\* search_lower_bound and search_upper_bound
RECURSIVE interpolation_loop(_, _, _, _)
interpolation_step(p, key, st, probe_index, g) ==
    IF ~(probe_index > st.range.begin /\ probe_index < st.range.end)
    THEN [st EXCEPT !.steps = 5]
    ELSE IF search_entry(p, probe_index, g).time < key
    THEN [st EXCEPT !.state = "UNDERSHOOT",
                    !.err = key - search_entry(p, probe_index, g).time,
                    !.range.begin = probe_index,
                    !.lower = search_entry(p, probe_index, g).time]
    ELSE IF search_entry(p, probe_index, g).time > key
    THEN [st EXCEPT !.state = "OVERSHOOT",
                    !.err = search_entry(p, probe_index, g).time - key,
                    !.range.end = probe_index,
                    !.upper = search_entry(p, probe_index, g).time]
    ELSE [st EXCEPT !.range.begin = probe_index, !.range.end = probe_index, !.steps = 5]

\* the numerator of the probe of one interpolation step, in WordBits-bit words
interpolation_numerator(key, st) ==
    IF st.state = "UNDERSHOOT"
    THEN (key - st.lower + (st.err \div 2 ^ st.steps) + WordMod) % WordMod
    ELSE IF st.state = "OVERSHOOT"
    THEN (key - st.lower - (st.err \div 2 ^ st.steps) + 2 * WordMod) % WordMod
    ELSE (key - st.lower + WordMod) % WordMod

interpolation_loop(p, key, st, g) ==
    IF st.steps >= 4 THEN st.range
    ELSE IF is_small(p, st.range) \/ st.lower = st.upper THEN st.range
    ELSE interpolation_loop(p, key,
             interpolation_step(p, key, [st EXCEPT !.steps = @ + 1],
                 st.range.begin
                   + (((interpolation_numerator(key, [st EXCEPT !.steps = @ + 1])
                           * (st.range.end - st.range.begin)) % WordMod)
                       \div ((st.upper - st.lower + WordMod) % WordMod)),
                 g),
             g)

\* SearchAlgorithm::interpolation
interpolation(p, key, range, g) ==
    IF range.begin = range.end THEN range
    ELSE interpolation_loop(p, key,
             [range |-> range, lower |-> search_entry(p, range.begin, g).time,
              upper |-> search_entry(p, range.end - 1, g).time,
              state |-> "NONE", err |-> 0, steps |-> 0], g)

\* the loop of SearchAlgorithm::binary_search; -1 stands for ~0u
RECURSIVE binary_search_loop(_, _, _, _, _, _)
binary_search_probe(p, key, b, e, probe_index, g) ==
    IF probe_index >= p.sync_count
    THEN [begin |-> p.sync_count, end |-> p.sync_count, error |-> "OVERFLOW"]
    ELSE IF search_entry(p, probe_index, g).time = key
    THEN [begin |-> probe_index, end |-> probe_index, error |-> "NONE"]
    ELSE IF search_entry(p, probe_index, g).time < key
    THEN IF probe_index + 1 >= p.sync_count
         THEN [begin |-> probe_index, end |-> probe_index, error |-> "NONE"]
         ELSE binary_search_loop(p, key, probe_index + 1, e, probe_index, g)
    ELSE IF probe_index - 1 = -1
         THEN [begin |-> probe_index, end |-> probe_index, error |-> "NONE"]
         ELSE binary_search_loop(p, key, b, probe_index - 1, probe_index, g)

binary_search_loop(p, key, b, e, last_probe, g) ==
    IF ~(e >= b) THEN [begin |-> last_probe, end |-> last_probe, error |-> "NONE"]
    ELSE binary_search_probe(p, key, b, e, b + ((e - b) \div 2), g)

\* SearchAlgorithm::binary_search
binary_search(p, key, range, g) ==
    IF range.begin = range.end THEN range
    ELSE binary_search_loop(p, key, range.begin, range.end, 0, g)

\* the ChunkHeader scan_compressed_entries decodes from the bytes of a chunk:
\* timestamps, paramids, lengths and offsets, each reader starting where the
\* one before it stopped; ts, ids, lens and offs are the reader results
decoded_header(ts, ids, lens, offs) ==
    [ok |-> ts.ok /\ ids.ok /\ lens.ok /\ offs.ok,
     timestamps |-> ts.col, paramids |-> ids.col, lengths |-> lens.col, offsets |-> offs.col]

decode_offsets(bytes, n, ts, ids, lens) ==
    decoded_header(ts, ids, lens, DeltaRLEOffReader(bytes, lens.pos, n))

decode_lengths(bytes, n, ts, ids) ==
    decode_offsets(bytes, n, ts, ids, RLELenReader(bytes, ids.pos, n))

decode_paramids(bytes, n, ts) ==
    decode_lengths(bytes, n, ts, Base128IdReader(bytes, ts.pos, n))

decode_header(bytes, n) == decode_paramids(bytes, n, DeltaRLETSReader(bytes, 1, n))

\* row i (0-based) of a decoded header as put_entry reports it; a row past
\* the end of the vectors is whatever lies behind them
header_row(header, i, g, gid) ==
    IF i + 1 \in DOMAIN header.timestamps
    THEN [ts |-> header.timestamps[i + 1], id |-> header.paramids[i + 1],
          value |-> header.offsets[i + 1]]
    ELSE [ts |-> g, id |-> gid, value |-> 0]

\* start_pos of scan_compressed_entries after the std::lower_bound for key_;
\* in both directions it ends at the position lower_bound found
start_pos(header, key) ==
    LowerBoundBits([i \in 1..Len(header.timestamps) |-> header.timestamps[i] < key],
                   1, Len(header.timestamps)) - 1

\* the backward loop of scan_compressed_entries from row i down to row 0:
\* [out, proceed]
RECURSIVE scan_rows_backward(_, _, _, _, _, _)
scan_row_backward(header, query, i, out, row, g, gid) ==
    IF query.lowerbound <= row.ts /\ query.upperbound >= row.ts /\ row.id \in query.ids
    THEN scan_rows_backward(header, query, i - 1, Append(out, row), g, gid)
    ELSE IF query.lowerbound <= row.ts
    THEN scan_rows_backward(header, query, i - 1, out, g, gid)
    ELSE [out |-> out, proceed |-> FALSE]

scan_rows_backward(header, query, i, out, g, gid) ==
    IF i < 0 THEN [out |-> out, proceed |-> TRUE]
    ELSE scan_row_backward(header, query, i, out, header_row(header, i, g, gid), g, gid)

\* the forward loop of scan_compressed_entries from row i to the last row
RECURSIVE scan_rows_forward(_, _, _, _)
scan_row_forward(header, query, i, out, row) ==
    IF query.lowerbound <= row.ts /\ query.upperbound >= row.ts /\ row.id \in query.ids
    THEN scan_rows_forward(header, query, i + 1, Append(out, row))
    ELSE IF query.upperbound >= row.ts
    THEN scan_rows_forward(header, query, i + 1, out)
    ELSE [out |-> out, proceed |-> FALSE]

scan_rows_forward(header, query, i, out) ==
    IF i = Len(header.timestamps) THEN [out |-> out, proceed |-> TRUE]
    ELSE scan_row_forward(header, query, i, out, header_row(header, i, 0, 0))

\* scan_compressed_entries after the header is decoded:
\* [out, proceed, panic, error]
scan_header(header, query, out, g, gid) ==
    IF ~header.ok
    THEN [out |-> out, proceed |-> FALSE, panic |-> FALSE, error |-> "STREAM_OUT_OF_BOUNDS"]
    ELSE IF header.timestamps = <<>>
    THEN [out |-> out, proceed |-> TRUE, panic |-> FALSE, error |-> "NONE"]
    ELSE IF query.direction = AKU_CURSOR_DIR_BACKWARD
    THEN [out |-> scan_rows_backward(header, query, start_pos(header, search_key(query)),
                                     out, g, gid).out,
          proceed |-> scan_rows_backward(header, query, start_pos(header, search_key(query)),
                                         out, g, gid).proceed,
          panic |-> FALSE, error |-> "NONE"]
    ELSE [out |-> scan_rows_forward(header, query, start_pos(header, search_key(query)),
                                    out).out,
          proceed |-> scan_rows_forward(header, query, start_pos(header, search_key(query)),
                                        out).proceed,
          panic |-> FALSE, error |-> "NONE"]

\* SearchAlgorithm::scan_compressed_entries(probe_entry, true); pdesc is the
\* ChunkDesc of the sentinel
scan_compressed_entries(p, query, pdesc, out, g, gid) ==
    IF checksum(p, pdesc.begin_offset, pdesc.end_offset) # pdesc.checksum
    THEN [out |-> out, proceed |-> FALSE, panic |-> TRUE, error |-> "NONE"]
    ELSE scan_header(decode_header(RegionBytes(p, pdesc.begin_offset, pdesc.end_offset),
                                   pdesc.n_elements),
                     query, out, g, gid)

\* proceed as scan_impl computes it from the time of an entry
proceed_by_time(query, time) ==
    IF query.direction = AKU_CURSOR_DIR_BACKWARD
    THEN query.lowerbound <= time ELSE query.upperbound >= time

\* the body of the loop of scan_impl for one entry: [out, proceed, panic, error]
scan_entry(p, query, probe_entry, out, g, gid) ==
    IF probe_entry.param_id < AKU_ID_COMPRESSED
    THEN [out |-> IF /\ probe_entry.param_id \in query.ids
                     /\ query.lowerbound <= probe_entry.time
                     /\ query.upperbound >= probe_entry.time
                  THEN Append(out, [ts |-> probe_entry.time, id |-> probe_entry.param_id,
                                    value |-> 0])
                  ELSE out,
          proceed |-> proceed_by_time(query, probe_entry.time),
          panic |-> FALSE, error |-> "NONE"]
    ELSE IF \/ (probe_entry.param_id = AKU_CHUNK_FWD_ID
                 /\ query.direction # AKU_CURSOR_DIR_BACKWARD)
            \/ (probe_entry.param_id = AKU_CHUNK_BWD_ID
                 /\ query.direction = AKU_CURSOR_DIR_BACKWARD)
    THEN scan_compressed_entries(p, query, probe_entry.value, out, g, gid)
    ELSE [out |-> out, proceed |-> proceed_by_time(query, probe_entry.time),
          panic |-> FALSE, error |-> "NONE"]

\* SearchAlgorithm::scan_impl from probe_index: [out, status, panic]; r is
\* what the body of the loop did with the entry at current_index
RECURSIVE scan_impl(_, _, _, _, _, _)
scan_next(p, query, probe_index, r, g, gid) ==
    IF r.panic THEN [out |-> r.out, status |-> "NONE", panic |-> TRUE]
    ELSE IF r.error # "NONE" THEN [out |-> r.out, status |-> r.error, panic |-> FALSE]
    ELSE IF ~r.proceed \/ probe_index >= p.sync_count \/ probe_index < 0
    THEN [out |-> r.out, status |-> "COMPLETE", panic |-> FALSE]
    ELSE scan_impl(p, query, probe_index, r.out, g, gid)

scan_impl(p, query, current_index, out, g, gid) ==
    scan_next(p, query,
              IF query.direction = AKU_CURSOR_DIR_BACKWARD
              THEN current_index - 1 ELSE current_index + 1,
              scan_entry(p, query, search_entry(p, current_index, g), out, g, gid),
              g, gid)

\* SearchAlgorithm::scan
scan(p, query, range, g, gid) ==
    IF range.begin # range.end THEN [out |-> <<>>, status |-> "EGENERAL", panic |-> FALSE]
    ELSE IF range.begin >= p.sync_count
    THEN [out |-> <<>>, status |-> "OVERFLOW", panic |-> FALSE]
    ELSE scan_impl(p, query, range.begin, <<>>, g, gid)

\* PageHeader::search after fast_path returned fp
search_slow_path(p, query, fp, g, gid) ==
    IF fp.done THEN [out |-> <<>>, status |-> fp.status, panic |-> FALSE]
    ELSE scan(p, query,
              binary_search(p, search_key(query),
                  interpolation(p, search_key(query),
                      histogram(p, search_key(query), fp.range), g), g),
              g, gid)

\* PageHeader::search: what the cursor received, [out, status, panic]
PageHeader_search(p, query, g, gid) == search_slow_path(p, query, fast_path(p, query), g, gid)

(***************************************************************************)
(* Volume and Storage                                                      *)
(***************************************************************************)
\* create_page_file: a constructed page, the first one activated
create_page_file(page_index, page_size) ==
    IF page_index = 0 THEN reuse(PageHeader(0, page_size, page_index))
    ELSE PageHeader(0, page_size, page_index)

\* Volume::Volume over a page file: the mapped page and a new Sequencer
Volume(page_) == [page_ |-> page_, cache_ |-> Sequencer]

\* Volume::safe_realloc: a new page file that inherits the counters
safe_realloc(vol) ==
    Volume([create_page_file(vol.page_.page_id, vol.page_.length)
                EXCEPT !.open_count = vol.page_.open_count,
                       !.close_count = vol.page_.close_count])

\* Storage::select_active_page, the scan for the active volume
RECURSIVE select_max_index(_, _, _, _)
select_max_index(volumes_, i, max_index, max_overwrites) ==
    IF i >= Len(volumes_) THEN max_index
    ELSE IF volumes_[i + 1].page_.open_count >= max_overwrites
    THEN select_max_index(volumes_, i + 1, i, volumes_[i + 1].page_.open_count)
    ELSE select_max_index(volumes_, i + 1, max_index, max_overwrites)

\* advance_volume_ without std::swap(active_volume_->cache_, prev_volume->cache_)
advance_volume_no_swap(st, local_rev) ==
    IF local_rev = st.active_volume_index_
    THEN LET prev == st.active_volume_
             closed == [st.volumes_ EXCEPT ![prev + 1].page_ = PageHeader_close(@)]
             index == st.active_volume_index_ + 1
             next_volume_index == index % Len(closed)
             newvol == safe_realloc(closed[next_volume_index + 1])
             ring == [closed EXCEPT ![next_volume_index + 1] = newvol]
         IN  [volumes_ |-> [ring EXCEPT ![next_volume_index + 1].page_ = reuse(@)],
              active_volume_index_ |-> index,
              active_volume_ |-> next_volume_index]
    ELSE st

\* Storage::advance_volume_; active_volume_ is the ring position of the
\* active volume, active_volume_index_ the counter the code increments
advance_volume_(st, local_rev) ==
    IF local_rev = st.active_volume_index_
    THEN LET prev == st.active_volume_
             closed == [st.volumes_ EXCEPT ![prev + 1].page_ = PageHeader_close(@)]
             index == st.active_volume_index_ + 1
             next_volume_index == index % Len(closed)
             newvol == safe_realloc(closed[next_volume_index + 1])
             \* the volume prev_volume points to: still in the ring unless it
             \* is the one just replaced
             ring == [i \in 1..Len(closed) |->
                        IF i = next_volume_index + 1
                        THEN [newvol EXCEPT !.cache_ = closed[prev + 1].cache_]
                        ELSE IF i = prev + 1
                        THEN [closed[i] EXCEPT !.cache_ = newvol.cache_]
                        ELSE closed[i]]
         IN  [volumes_ |-> [ring EXCEPT ![next_volume_index + 1].page_ = reuse(@)],
              active_volume_index_ |-> index,
              active_volume_ |-> next_volume_index]
    ELSE st

\* Storage::Storage over freshly created page files (create_page_files,
\* the volumes list, select_active_page)
Storage(page_size) ==
    LET volumes_ == [i \in 1..NumVolumes |-> Volume(create_page_file(i - 1, page_size))]
        max_index == select_max_index(volumes_, 0, -1, -1)
        st == [volumes_ |-> volumes_, active_volume_index_ |-> max_index,
               active_volume_ |-> max_index]
    IN  IF volumes_[max_index + 1].page_.close_count = volumes_[max_index + 1].page_.open_count
        THEN advance_volume_(st, max_index)
        ELSE st

\* Storage::select_active_page over the volumes list
select_active_page(volumes_) ==
    LET max_index == select_max_index(volumes_, 0, -1, -1)
        st == [volumes_ |-> volumes_, active_volume_index_ |-> max_index,
               active_volume_ |-> max_index]
    IN  IF volumes_[max_index + 1].page_.close_count = volumes_[max_index + 1].page_.open_count
        THEN advance_volume_(st, max_index)
        ELSE st

\* Storage::Storage over existing page files: a Volume with a new Sequencer
\* for each mapped page, then select_active_page
Storage_open(volumes_) ==
    select_active_page([i \in 1..Len(volumes_) |-> Volume(volumes_[i].page_)])

\* the page files when the process stops inside advance_volume_ after
\* active_volume_->close() and before the next volume is opened
advance_volume_interrupted(st) ==
    [st.volumes_ EXCEPT ![st.active_volume_ + 1].page_ = PageHeader_close(@)]

\* _write_impl after merge_and_compress returned m: the switch on its status;
\* added is the storage holding the value
write_merged(added, local_rev, m) ==
    [storage |-> IF ~m.panic /\ m.status = "OVERFLOW"
                 THEN advance_volume_(
                          [added EXCEPT !.volumes_[added.active_volume_ + 1].cache_ = m.seq,
                                        !.volumes_[added.active_volume_ + 1].page_ = m.page],
                          local_rev)
                 ELSE [added EXCEPT !.volumes_[added.active_volume_ + 1].cache_ = m.seq,
                                    !.volumes_[added.active_volume_ + 1].page_ = m.page],
     status |-> IF ~m.panic /\ m.status = "OVERFLOW" THEN "SUCCESS" ELSE m.status,
     merge_status |-> m.status,
     pending |-> Flatten(m.seq.runs_ \o m.seq.ready_),
     panic |-> m.panic \/ m.status \notin {"SUCCESS", "OVERFLOW"}]

\* _write_impl after cache_->add returned r
write_added(st, r) ==
    IF ~r.panic /\ r.status = "SUCCESS" /\ r.lock % 2 = 1
    THEN {write_merged([st EXCEPT !.volumes_[st.active_volume_ + 1].cache_ = r.seq],
                       st.active_volume_index_, m)
            : m \in merge_and_compress(r.seq, st.volumes_[st.active_volume_ + 1].page_, FALSE)}
    ELSE {[storage |-> [st EXCEPT !.volumes_[st.active_volume_ + 1].cache_ = r.seq],
           status |-> r.status, merge_status |-> "NONE", pending |-> <<>>,
           panic |-> r.panic]}

\* Storage::_write_impl: the set of outcomes
\* [storage, status, merge_status, pending, panic]; pending is what the
\* Sequencer held when merge_and_compress returned
_write_impl(st, ts_value) ==
    write_added(st, add(st.volumes_[st.active_volume_ + 1].cache_, ts_value))

\* Storage::write_double
write_double(st, param, ts, value) == _write_impl(st, TimeSeriesValue(ts, param, value))

\* Storage::close: the set of outcomes [storage, status, panic]
Storage_close(st) ==
    LET a == st.active_volume_ + 1 IN
    {[storage |-> [st EXCEPT !.volumes_[a].cache_ = c.seq, !.volumes_[a].page_ = c.page],
      status |-> c.status, panic |-> c.panic]
        : c \in Sequencer_close(st.volumes_[a].cache_, st.volumes_[a].page_)}

(***************************************************************************)
(* ChunkCache: cache_ maps a key to the chunk stored under it, fifo_ lists  *)
(* (key, size) with the newest put in front. A chunk is [rows, serial]:    *)
(* the length of its three vectors and the identity of the shared_ptr,     *)
(* numbered in the order the chunks are handed to put.                     *)
(***************************************************************************)
SizeofParamId == 8
SizeofTimestamp == 8

\* ChunkCache::ChunkCache(limit)
ChunkCache(limit) ==
    [total_size_ |-> 0, size_limit_ |-> limit, fifo_ |-> <<>>, cache_ |-> <<>>]

\* ChunkCache::contains
ChunkCache_contains(c, key) == key \in DOMAIN c.cache_

\* get_size(header)
get_size(header) ==
    header.rows * SizeofParamId + header.rows * SizeofTimestamp + header.rows * SizeofDouble

\* the eviction of ChunkCache::put: fifo_.back() leaves fifo_, its key leaves
\* cache_ if it is there, its size leaves total_size_
evict_back(c) ==
    [c EXCEPT !.fifo_ = SubSeq(c.fifo_, 1, Len(c.fifo_) - 1),
              !.cache_ = [k \in (DOMAIN c.cache_) \ {c.fifo_[Len(c.fifo_)].key} |-> c.cache_[k]],
              !.total_size_ = c.total_size_ - c.fifo_[Len(c.fifo_)].size]

\* the end of ChunkCache::put: push_front, cache_[key] = header, total_size_
insert_front(c, key, header) ==
    [c EXCEPT !.fifo_ = <<[key |-> key, size |-> get_size(header)]>> \o c.fifo_,
              !.cache_ = [k \in (DOMAIN c.cache_) \cup {key} |->
                             IF k = key THEN header ELSE c.cache_[k]],
              !.total_size_ = c.total_size_ + get_size(header)]

\* ChunkCache::put
ChunkCache_put(c, key, header) ==
    IF c.total_size_ + get_size(header) > c.size_limit_ /\ c.fifo_ # <<>>
    THEN insert_front(evict_back(c), key, header)
    ELSE insert_front(c, key, header)

(***************************************************************************)
(* State                                                                   *)
(***************************************************************************)
VARIABLES
    seq,        \* a Sequencer driven through its own interface
    page,       \* the PageHeader it flushes to / a page driven directly
    nadds,      \* number of add (or ChunkCache put) calls made so far
    accepted,   \* history: the samples add has accepted
    was_reset,  \* history: Sequencer::reset has been called
    storage,    \* a Storage: its ring of volumes and the active one
    chunk_cache, \* a ChunkCache driven through put
    writers,    \* each writer's position in advance_volume_ and its local_rev
    searcher,   \* a reader's position in Sequencer::search and what it read
    last,       \* the last call: its name, arguments and results
    panic       \* AKU_PANIC was reached: the process is gone

vars == <<seq, page, nadds, accepted, was_reset, storage, chunk_cache, writers, searcher, last, panic>>

\* all samples held by a list of runs
Samples(runs) == Flatten(runs)

\* a page file as create_page_file leaves the first volume: constructed, reused
FreshPage(page_id) == reuse(PageHeader(0, PageLength, page_id))

NoCall == [op |-> "none"]

\* no reader is inside Sequencer::search
NoSearch == [pc |-> "idle"]

\* no writer is inside a call
NoWriters == [w \in 1..NumWriters |-> [pc |-> "idle", rotated |-> FALSE, local_rev |-> 0]]

(***************************************************************************)
(* The Sequencer driven through add, merge_and_compress, close and reset,  *)
(* flushing to one page                                                    *)
(***************************************************************************)
InitSeq ==
    /\ seq = Sequencer
    /\ page = FreshPage(0)
    /\ nadds = 0
    /\ accepted = {}
    /\ was_reset = FALSE
    /\ storage = Storage(PageLength)
    /\ chunk_cache = ChunkCache(CacheLimit)
    /\ writers = NoWriters
    /\ searcher = NoSearch
    /\ last = NoCall
    /\ panic = FALSE

Add(ts, id, value) ==
    /\ ~panic
    /\ nadds < MaxAdds
    /\ \E r \in {add(seq, TimeSeriesValue(ts, id, value))} :
        /\ seq' = r.seq
        /\ panic' = r.panic
        /\ accepted' = IF r.status = "SUCCESS" /\ ~r.panic
                       THEN accepted \cup {TimeSeriesValue(ts, id, value)}
                       ELSE accepted
        /\ last' = [op |-> "add", value |-> TimeSeriesValue(ts, id, value),
                    status |-> r.status, lock |-> r.lock,
                    top_timestamp_ |-> seq.top_timestamp_,
                    checkpoint_ |-> seq.checkpoint_]
    /\ nadds' = nadds + 1
    /\ UNCHANGED <<page, was_reset, storage, chunk_cache, writers, searcher>>

MergeAndCompress(enforce_write) ==
    /\ ~panic
    /\ \E r \in merge_and_compress(seq, page, enforce_write) :
        /\ seq' = r.seq
        /\ page' = r.page
        /\ panic' = r.panic
        /\ last' = [op |-> "merge_and_compress", enforce_write |-> enforce_write,
                    status |-> r.status]
    /\ UNCHANGED <<nadds, accepted, was_reset, storage, chunk_cache, writers, searcher>>

Close ==
    /\ ~panic
    /\ \E r \in Sequencer_close(seq, page) :
        /\ seq' = r.seq
        /\ page' = r.page
        /\ panic' = r.panic
        /\ last' = [op |-> "close", status |-> r.status]
    /\ UNCHANGED <<nadds, accepted, was_reset, storage, chunk_cache, writers, searcher>>

Reset ==
    /\ ~panic
    /\ seq' = reset(seq)
    /\ was_reset' = TRUE
    /\ last' = [op |-> "reset", status |-> "SUCCESS"]
    /\ UNCHANGED <<page, nadds, accepted, storage, chunk_cache, writers, searcher, panic>>

NextSeq ==
    \/ \E ts \in Timestamps, id \in ParamIds, value \in Values : Add(ts, id, value)
    \/ \E enforce_write \in BOOLEAN : MergeAndCompress(enforce_write)
    \/ Close
    \/ Reset

SpecSeq == InitSeq /\ [][NextSeq]_vars

(***************************************************************************)
(* A reader calling Sequencer::search between the writer's calls; the      *)
(* writer uses one series                                                  *)
(***************************************************************************)
Search(ts, ids, backward) ==
    /\ ~panic
    /\ \E r \in Sequencer_search(seq, [lowerbound |-> ts, upperbound |-> ts,
                                       ids |-> ids, backward |-> backward],
                                 get_window(seq)[2]) :
        last' = [op |-> "search", lowerbound |-> ts, upperbound |-> ts, ids |-> ids,
                 status |-> r.status, out |-> r.out]
    /\ UNCHANGED <<seq, page, nadds, accepted, was_reset, storage, chunk_cache, writers, searcher, panic>>

NextSearch ==
    \/ \E ts \in Timestamps, value \in Values : Add(ts, 1, value)
    \/ MergeAndCompress(FALSE)
    \/ Close
    \/ \E ts \in Timestamps, backward \in BOOLEAN : Search(ts, {1}, backward)

SpecSearch == InitSeq /\ [][NextSearch]_vars

(***************************************************************************)
(* A reader calling PageHeader::search on the page the Sequencer flushes   *)
(* to; the writer uses one series                                          *)
(***************************************************************************)
\* the bounds a query is given
QueryTimestamps == 0..MaxQueryTs

PageSearch(lowerbound, upperbound, ids, direction) ==
    /\ ~panic
    /\ \E g \in GarbageTs, gid \in GarbageIds :
        \E r \in {PageHeader_search(page, [lowerbound |-> lowerbound,
                                           upperbound |-> upperbound,
                                           ids |-> ids, direction |-> direction],
                                    g, gid)} :
            /\ last' = [op |-> "page_search",
                        query |-> [lowerbound |-> lowerbound, upperbound |-> upperbound,
                                   ids |-> ids, direction |-> direction],
                        status |-> r.status, out |-> r.out]
            /\ panic' = r.panic
    /\ UNCHANGED <<seq, page, nadds, accepted, was_reset, storage, chunk_cache, writers, searcher>>

NextPageSearch ==
    \/ \E ts \in Timestamps, value \in Values : Add(ts, 1, value)
    \/ MergeAndCompress(FALSE)
    \/ Close
    \/ \E lowerbound \in QueryTimestamps, upperbound \in QueryTimestamps, ids \in {{1}, {2}},
          direction \in {AKU_CURSOR_DIR_FORWARD, AKU_CURSOR_DIR_BACKWARD} :
            PageSearch(lowerbound, upperbound, ids, direction)

SpecPageSearch == InitSeq /\ [][NextPageSearch]_vars

(***************************************************************************)
(* A ChunkCache driven through put                                         *)
(***************************************************************************)
\* the keys and the chunk lengths put is given
CacheKeys == 1..MaxCacheKey
ChunkLengths == 1..MaxChunkRows

CachePut(key, rows) ==
    /\ nadds < MaxPuts
    /\ chunk_cache' = ChunkCache_put(chunk_cache, key, [rows |-> rows, serial |-> nadds + 1])
    /\ nadds' = nadds + 1
    /\ last' = [op |-> "put", key |-> key, size |-> get_size([rows |-> rows]),
                evicted |-> chunk_cache.total_size_ + get_size([rows |-> rows])
                                > chunk_cache.size_limit_ /\ chunk_cache.fifo_ # <<>>]
    /\ UNCHANGED <<seq, page, accepted, was_reset, storage, writers, searcher, panic>>

NextCache == \E key \in CacheKeys, rows \in ChunkLengths : CachePut(key, rows)

SpecCache == InitSeq /\ [][NextCache]_vars

(***************************************************************************)
(* The column codecs driven on their own: a column is encoded by a writer  *)
(* pipeline and the same number of values is read back by the matching     *)
(* reader pipeline. A round trip result is [ok, col]: ok is FALSE when the  *)
(* writer or the reader threw StreamOutOfBounds.                           *)
(***************************************************************************)
\* values of the columns: the ends and the quarter points of the word range
ColumnValues ==
    {0, 1, 2, WordMod \div 4 - 1, WordMod \div 4, WordMod \div 2 - 1,
     WordMod \div 2, WordMod - 2, WordMod - 1}

\* the columns of at most MaxColumnLen values
Columns == UNION {[1..n -> ColumnValues] : n \in 0..MaxColumnLen}

\* Base128Int<TVal>::put with a signed TVal: value >>= 7 keeps the sign, a
\* negative value never becomes 0, the loop runs to the end of the buffer and
\* Base128StreamWriter::put throws StreamOutOfBounds
signed_put_throws(col) == \E i \in 1..Len(col) : col[i] >= WordMod \div 2

\* the result of reading back what a writer that did not throw has written
read_back(r) == [ok |-> r.ok, col |-> r.col]

\* Base128IdWriter, then Base128IdReader
Base128RoundTrip(col) == read_back(Base128IdReader(Base128IdWriter(col), 1, Len(col)))

\* RLELenWriter, then RLELenReader
RLERoundTrip(col) == read_back(RLELenReader(RLELenWriter(col), 1, Len(col)))

\* DeltaRLETSWriter, then DeltaRLETSReader
DeltaRLERoundTrip(col) == read_back(DeltaRLETSReader(DeltaRLETSWriter(col), 1, Len(col)))

\* ZigZagStreamWriter::put, then ZigZagStreamReader::next, on each value
ZigZagRoundTrip(col) == [ok |-> TRUE, col |-> UnZigZagCol(ZigZagCol(col))]

\* DeltaRLEOffWriter (signed words), then DeltaRLEOffReader
DeltaRLEOffRoundTrip(col) ==
    IF signed_put_throws(RLEPairs(ZigZagCol(DeltaCol(col))))
    THEN [ok |-> FALSE, col |-> <<>>]
    ELSE read_back(DeltaRLEOffReader(DeltaRLEOffWriter(col), 1, Len(col)))

InitCodec ==
    /\ seq = Sequencer
    /\ page = FreshPage(0)
    /\ nadds = 0
    /\ accepted = {}
    /\ was_reset = FALSE
    /\ storage = Storage(PageLength)
    /\ chunk_cache = ChunkCache(CacheLimit)
    /\ writers = NoWriters
    /\ searcher = NoSearch
    /\ last \in {[op |-> "column", col |-> col] : col \in Columns}
    /\ panic = FALSE

\* one round trip of the column through the named pipeline
RoundTrip(pipeline, result) ==
    /\ last.op = "column"
    /\ last' = [op |-> pipeline, col |-> last.col, result |-> result]
    /\ UNCHANGED <<seq, page, nadds, accepted, was_reset, storage, chunk_cache, writers, searcher, panic>>

CodecBase128 == RoundTrip("Base128", Base128RoundTrip(last.col))
CodecRLE == RoundTrip("RLE", RLERoundTrip(last.col))
CodecDeltaRLE == RoundTrip("DeltaRLE", DeltaRLERoundTrip(last.col))
CodecZigZag == RoundTrip("ZigZag", ZigZagRoundTrip(last.col))
CodecDeltaRLEOff == RoundTrip("DeltaRLEOff", DeltaRLEOffRoundTrip(last.col))

\* RLEStreamWriter alone: every put of the column, then commit
CodecRLEWriter ==
    /\ last.op = "column"
    /\ last' = [op |-> "RLEWriter", col |-> last.col, pairs |-> RLEPairs(last.col)]
    /\ UNCHANGED <<seq, page, nadds, accepted, was_reset, storage, chunk_cache, writers, searcher, panic>>

NextCodec ==
    \/ CodecRLEWriter
    \/ CodecBase128
    \/ CodecRLE
    \/ CodecDeltaRLE
    \/ CodecZigZag
    \/ CodecDeltaRLEOff

SpecCodec == InitCodec /\ [][NextCodec]_vars

(***************************************************************************)
(* The ring of volumes driven through advance_volume_, Storage::close and   *)
(* the opening of the Storage over the page files it finds. A writer reads *)
(* active_volume_index_ (as _write_impl does), then calls advance_volume_:  *)
(* the comparison with active_volume_index_ and the rotation that follows  *)
(* it are two steps, nothing in the code makes them one.                   *)
(***************************************************************************)
Writers == 1..NumWriters

\* largest open_count or close_count of the ring
RECURSIVE MaxOpenCount(_, _)
MaxOpenCount(volumes_, i) ==
    IF i > Len(volumes_) THEN 0
    ELSE Max2(Max2(volumes_[i].page_.open_count, volumes_[i].page_.close_count),
              MaxOpenCount(volumes_, i + 1))

InitRing ==
    /\ seq = Sequencer
    /\ page = FreshPage(0)
    /\ nadds = 0
    /\ accepted = {}
    /\ was_reset = FALSE
    /\ storage = Storage(PageLength)
    /\ chunk_cache = ChunkCache(CacheLimit)
    /\ writers = NoWriters
    /\ searcher = NoSearch
    /\ last = NoCall
    /\ panic = FALSE

\* _write_impl: int local_rev = active_volume_index_.load()
WriterRead(w) ==
    /\ ~panic
    /\ writers[w].pc = "idle"
    /\ MaxOpenCount(storage.volumes_, 1) < MaxRingOpen
    /\ writers' = [writers EXCEPT ![w] = [pc |-> "read", rotated |-> FALSE,
                                          local_rev |-> storage.active_volume_index_]]
    /\ last' = [op |-> "read", writer |-> w]
    /\ UNCHANGED <<seq, page, nadds, accepted, was_reset, storage, chunk_cache, searcher, panic>>

\* advance_volume_: if (local_rev == active_volume_index_.load())
WriterCheck(w) ==
    /\ ~panic
    /\ writers[w].pc = "read"
    /\ writers' = [writers EXCEPT ![w].pc =
                      IF writers[w].local_rev = storage.active_volume_index_
                      THEN "rotate" ELSE "idle"]
    /\ last' = [op |-> "check", writer |-> w]
    /\ UNCHANGED <<seq, page, nadds, accepted, was_reset, storage, chunk_cache, searcher, panic>>

\* advance_volume_: the body of the if
WriterRotate(w) ==
    /\ ~panic
    /\ writers[w].pc = "rotate"
    /\ storage' = advance_volume_(storage, storage.active_volume_index_)
    /\ writers' = [writers EXCEPT ![w].pc = "idle", ![w].rotated = TRUE]
    /\ last' = [op |-> "advance", writer |-> w, advanced |-> TRUE, before |-> storage]
    /\ UNCHANGED <<seq, page, nadds, accepted, was_reset, chunk_cache, searcher, panic>>

\* what opening the Storage over the page files did
opened(volumes_, clean, active) ==
    [op |-> "open", clean |-> clean, active |-> active,
     selected |-> select_max_index(volumes_, 0, -1, -1),
     advanced |-> volumes_[select_max_index(volumes_, 0, -1, -1) + 1].page_.close_count
                  = volumes_[select_max_index(volumes_, 0, -1, -1) + 1].page_.open_count,
     before |-> [volumes_ |-> volumes_,
                 active_volume_index_ |-> select_max_index(volumes_, 0, -1, -1),
                 active_volume_ |-> select_max_index(volumes_, 0, -1, -1)]]

\* Storage::close with no writer inside a call, the end of the process, and
\* the opening of the Storage by the next process
RingReopen ==
    /\ ~panic
    /\ \A w \in Writers : writers[w].pc = "idle"
    /\ MaxOpenCount(storage.volumes_, 1) < MaxRingOpen
    /\ \E r \in Storage_close(storage) :
        /\ panic' = r.panic
        /\ storage' = IF r.panic THEN r.storage ELSE Storage_open(r.storage.volumes_)
        /\ last' = opened(r.storage.volumes_, TRUE, storage.active_volume_)
    /\ writers' = NoWriters
    /\ UNCHANGED <<seq, page, nadds, accepted, was_reset, chunk_cache, searcher>>

\* the process stops while writer w is inside the body of advance_volume_,
\* after the active page was closed; the next process opens the Storage
RingCrash(w) ==
    /\ ~panic
    /\ writers[w].pc = "rotate"
    /\ storage' = Storage_open(advance_volume_interrupted(storage))
    /\ last' = opened(advance_volume_interrupted(storage), FALSE, storage.active_volume_)
    /\ writers' = NoWriters
    /\ UNCHANGED <<seq, page, nadds, accepted, was_reset, chunk_cache, searcher, panic>>

NextRing ==
    \/ \E w \in Writers : WriterRead(w)
    \/ \E w \in Writers : WriterCheck(w)
    \/ \E w \in Writers : WriterRotate(w)
    \/ \E w \in Writers : RingCrash(w)
    \/ RingReopen

SpecRing == InitRing /\ [][NextRing]_vars

(***************************************************************************)
(* A reader inside Sequencer::search while the writer calls add,           *)
(* merge_and_compress and close: the entry of search (the first read of    *)
(* sequence_number_ and the test on it) and its end (the scan and the      *)
(* second read) are two steps. searcher.written records that a call of the *)
(* writer stored to sequence_number_ in between.                           *)
(***************************************************************************)
\* the values of sequence_number a reader passes
Generations == 0..MaxGeneration

\* the writer's call stored to sequence_number_ while the reader was inside
written(stored) == [searcher EXCEPT !.written = @ \/ (searcher.pc = "scan" /\ stored)]

\* Sequencer::search up to the copy of runs_
SearchEnter(ts, ids, backward, sequence_number) ==
    /\ ~panic
    /\ searcher.pc = "idle"
    /\ searcher' = IF seq.sequence_number_ % 2 # 0 \/ sequence_number # seq.sequence_number_
                   THEN NoSearch
                   ELSE [pc |-> "scan", seq_id |-> seq.sequence_number_, written |-> FALSE,
                         q |-> [lowerbound |-> ts, upperbound |-> ts, ids |-> ids,
                                backward |-> backward],
                         pruns |-> seq.runs_]
    /\ last' = [op |-> "search_enter", seq_id |-> seq.sequence_number_,
                sequence_number |-> sequence_number,
                status |-> IF seq.sequence_number_ % 2 # 0
                              \/ sequence_number # seq.sequence_number_
                           THEN "BUSY" ELSE "NONE"]
    /\ UNCHANGED <<seq, page, nadds, accepted, was_reset, storage, chunk_cache, writers, panic>>

\* Sequencer::search from the scan of the runs to its return; the scan finds
\* the runs as they were at the entry or as they are now
SearchLeave ==
    /\ ~panic
    /\ searcher.pc = "scan"
    /\ \E runs_ \in {searcher.pruns, seq.runs_} :
         \E r \in search_scan(runs_, searcher.q) :
            last' = [op |-> "search_leave", seq_id |-> searcher.seq_id,
                     written |-> searcher.written, out |-> r.out,
                     status |-> IF searcher.seq_id # seq.sequence_number_
                                THEN "BUSY" ELSE "SUCCESS"]
    /\ searcher' = NoSearch
    /\ UNCHANGED <<seq, page, nadds, accepted, was_reset, storage, chunk_cache, writers, panic>>

\* Sequencer::add by the writer
WriterAdd(ts, id, value) ==
    /\ ~panic
    /\ nadds < MaxAdds
    /\ \E r \in {add(seq, TimeSeriesValue(ts, id, value))} :
        /\ seq' = r.seq
        /\ panic' = r.panic
        /\ accepted' = IF r.status = "SUCCESS" /\ ~r.panic
                       THEN accepted \cup {TimeSeriesValue(ts, id, value)}
                       ELSE accepted
        /\ last' = [op |-> "add", value |-> TimeSeriesValue(ts, id, value),
                    status |-> r.status, lock |-> r.lock]
        /\ searcher' = written(r.lock # 0)
    /\ nadds' = nadds + 1
    /\ UNCHANGED <<page, was_reset, storage, chunk_cache, writers>>

\* Sequencer::merge_and_compress by the writer
WriterMergeAndCompress ==
    /\ ~panic
    /\ \E r \in merge_and_compress(seq, page, FALSE) :
        /\ seq' = r.seq
        /\ page' = r.page
        /\ panic' = r.panic
        /\ last' = [op |-> "merge_and_compress", status |-> r.status]
        /\ searcher' = written(r.status \notin {"BUSY", "NO_DATA"})
    /\ UNCHANGED <<nadds, accepted, was_reset, storage, chunk_cache, writers>>

\* Sequencer::close by the writer
WriterClose ==
    /\ ~panic
    /\ \E r \in Sequencer_close(seq, page) :
        /\ seq' = r.seq
        /\ page' = r.page
        /\ panic' = r.panic
        /\ last' = [op |-> "close", status |-> r.status]
        /\ searcher' = written(TRUE)
    /\ UNCHANGED <<nadds, accepted, was_reset, storage, chunk_cache, writers>>

NextConcurrentSearch ==
    \/ \E ts \in Timestamps, value \in Values : WriterAdd(ts, 1, value)
    \/ WriterMergeAndCompress
    \/ WriterClose
    \/ \E ts \in QueryTimestamps, backward \in BOOLEAN, sequence_number \in Generations :
          SearchEnter(ts, {1}, backward, sequence_number)
    \/ SearchLeave

SpecConcurrentSearch == InitSeq /\ [][NextConcurrentSearch]_vars

(***************************************************************************)
(* The locks of the Sequencer. The writer's make_checkpoint_, reset and     *)
(* close and the reader's search are taken step by step: one step for each *)
(* lock operation and for each turn of a loop over runs_. writers is the    *)
(* position of the single writer, stripes telling that it holds every lock *)
(* of run_locks_ in write mode and resize that it holds runs_resize_lock_;  *)
(* searcher.holds is the run whose stripe the reader holds in read mode.    *)
(* A shared_ptr that was moved from is NullRun.                             *)
(***************************************************************************)
NullRun == <<[ts |-> 0 - 1, id |-> 0 - 1, value |-> 0 - 1]>>

\* the adds of one behaviour of the lock-level Sequencer
MaxLockAdds == 2

WriterIdle == [pc |-> "idle", stripes |-> FALSE, resize |-> FALSE]

InitLocks ==
    /\ seq = Sequencer
    /\ page = FreshPage(0)
    /\ nadds = 0
    /\ accepted = {}
    /\ was_reset = FALSE
    /\ storage = Storage(PageLength)
    /\ chunk_cache = ChunkCache(CacheLimit)
    /\ writers = WriterIdle
    /\ searcher = [pc |-> "idle", holds |-> 0]
    /\ last = NoCall
    /\ panic = FALSE

\* the write lock of the stripe add pushes to is free
StripeFree(value) ==
    insert_position(seq.runs_, value) = Len(seq.runs_) + 1
        \/ searcher.holds # insert_position(seq.runs_, value)

\* Sequencer::add that does not reach make_checkpoint_
LocksAdd(ts, id, value) ==
    /\ ~panic
    /\ writers.pc = "idle"
    /\ nadds < MaxLockAdds
    /\ ts < seq.top_timestamp_ \/ get_checkpoint_(ts) <= seq.checkpoint_
    /\ StripeFree(TimeSeriesValue(ts, id, value))
    /\ \E r \in {add(seq, TimeSeriesValue(ts, id, value))} :
        /\ seq' = r.seq
        /\ last' = [op |-> "add", status |-> r.status, lock |-> r.lock]
    /\ nadds' = nadds + 1
    /\ UNCHANGED <<page, accepted, was_reset, storage, chunk_cache, writers, searcher, panic>>

\* Sequencer::add reaching make_checkpoint_: fetch_add on sequence_number_ and
\* the store to checkpoint_
CheckpointBegin(ts, id, value) ==
    /\ ~panic
    /\ writers.pc = "idle"
    /\ nadds < MaxLockAdds
    /\ ts >= seq.top_timestamp_
    /\ get_checkpoint_(ts) > seq.checkpoint_
    /\ seq' = IF (seq.sequence_number_ + 1) % 2 # 0
              THEN [seq EXCEPT !.sequence_number_ = @ + 1, !.checkpoint_ = get_checkpoint_(ts)]
              ELSE [seq EXCEPT !.sequence_number_ = @ + 1]
    /\ panic' = ((seq.sequence_number_ + 1) % 2 = 0)
    /\ writers' = IF (seq.sequence_number_ + 1) % 2 # 0
                  THEN [pc |-> "split", stripes |-> FALSE, resize |-> FALSE, i |-> 1,
                        value |-> TimeSeriesValue(ts, id, value),
                        old_top |-> get_timestamp_(seq.checkpoint_),
                        ready_before |-> Len(seq.ready_), new_runs |-> <<>>]
                  ELSE writers
    /\ last' = [op |-> "make_checkpoint_", status |-> "NONE"]
    /\ nadds' = nadds + 1
    /\ UNCHANGED <<page, accepted, was_reset, storage, chunk_cache, searcher>>

\* one turn of the loop of make_checkpoint_ over runs_: `it` is what
\* std::lower_bound found in the run
split_run(s, w, it) ==
    IF it = 1
    THEN [seq |-> [s EXCEPT !.runs_[w.i] = NullRun],
          new_runs |-> Append(w.new_runs, s.runs_[w.i])]
    ELSE IF it = Len(s.runs_[w.i]) + 1
    THEN [seq |-> [s EXCEPT !.runs_[w.i] = NullRun, !.ready_ = Append(@, s.runs_[w.i])],
          new_runs |-> w.new_runs]
    ELSE [seq |-> [s EXCEPT !.ready_ = Append(@, SubSeq(s.runs_[w.i], 1, it - 1))],
          new_runs |-> Append(w.new_runs, SubSeq(s.runs_[w.i], it, Len(s.runs_[w.i])))]

CheckpointSplit ==
    /\ ~panic
    /\ writers.pc = "split"
    /\ writers.i <= Len(seq.runs_)
    /\ \E r \in {split_run(seq, writers,
                           lower_bound(seq.runs_[writers.i], checkpoint_key(writers.old_top)))} :
        /\ seq' = r.seq
        /\ writers' = [writers EXCEPT !.i = @ + 1, !.new_runs = r.new_runs]
    /\ last' = [op |-> "make_checkpoint_", status |-> "NONE"]
    /\ UNCHANGED <<page, nadds, accepted, was_reset, storage, chunk_cache, searcher, panic>>

\* make_checkpoint_: Lock guard(runs_resize_lock_)
CheckpointLock ==
    /\ ~panic
    /\ writers.pc = "split"
    /\ writers.i > Len(seq.runs_)
    /\ writers' = [writers EXCEPT !.pc = "swap", !.resize = TRUE]
    /\ last' = [op |-> "make_checkpoint_", status |-> "NONE"]
    /\ UNCHANGED <<seq, page, nadds, accepted, was_reset, storage, chunk_cache, searcher, panic>>

\* the end of make_checkpoint_ (the swap of runs_ and the revert of a small
\* split) and the rest of add
checkpoint_and_add(s, w) ==
    add_to_run(
        checkpoint_made(
            make_checkpoint_swap([s EXCEPT !.ready_ = SubSeq(s.ready_, 1, w.ready_before)],
                                 s.checkpoint_, s.sequence_number_,
                                 [new_runs |-> w.new_runs,
                                  ready |-> SubSeq(s.ready_, w.ready_before + 1, Len(s.ready_))]),
            w.value.ts),
        w.value)

CheckpointSwap ==
    /\ ~panic
    /\ writers.pc = "swap"
    /\ searcher.holds = 0
    /\ \E r \in {checkpoint_and_add(seq, writers)} :
        /\ seq' = r.seq
        /\ last' = [op |-> "add", status |-> r.status, lock |-> r.lock]
    /\ writers' = WriterIdle
    /\ UNCHANGED <<page, nadds, accepted, was_reset, storage, chunk_cache, searcher, panic>>

\* Sequencer::merge_and_compress by the writer
LocksMerge ==
    /\ ~panic
    /\ writers.pc = "idle"
    /\ \E r \in merge_and_compress(seq, page, FALSE) :
        /\ seq' = r.seq
        /\ page' = r.page
        /\ panic' = r.panic
        /\ last' = [op |-> "merge_and_compress", status |-> r.status]
    /\ UNCHANGED <<nadds, accepted, was_reset, storage, chunk_cache, writers, searcher>>

\* Sequencer::close and Sequencer::reset: wrlock_all(run_locks_)
MoveLock(op) ==
    /\ ~panic
    /\ writers.pc = "idle"
    /\ searcher.holds = 0
    /\ writers' = [pc |-> "move", stripes |-> TRUE, resize |-> FALSE, i |-> 1, op |-> op]
    /\ last' = [op |-> op, status |-> "NONE"]
    /\ UNCHANGED <<seq, page, nadds, accepted, was_reset, storage, chunk_cache, searcher, panic>>

\* one turn of the loop of close and reset: ready_.push_back(move(sorted_run))
MoveRun ==
    /\ ~panic
    /\ writers.pc = "move"
    /\ writers.i <= Len(seq.runs_)
    /\ seq' = [seq EXCEPT !.runs_[writers.i] = NullRun,
                          !.ready_ = Append(@, seq.runs_[writers.i])]
    /\ writers' = [writers EXCEPT !.i = @ + 1]
    /\ last' = [op |-> writers.op, status |-> "NONE"]
    /\ UNCHANGED <<page, nadds, accepted, was_reset, storage, chunk_cache, searcher, panic>>

\* unlock_all(run_locks_)
MoveUnlock ==
    /\ ~panic
    /\ writers.pc = "move"
    /\ writers.i > Len(seq.runs_)
    /\ writers' = [writers EXCEPT !.pc = "unlocked", !.stripes = FALSE]
    /\ last' = [op |-> writers.op, status |-> "NONE"]
    /\ UNCHANGED <<seq, page, nadds, accepted, was_reset, storage, chunk_cache, searcher, panic>>

\* runs_resize_lock_.lock()
MoveResizeLock ==
    /\ ~panic
    /\ writers.pc = "unlocked"
    /\ writers' = [writers EXCEPT !.pc = "clear", !.resize = TRUE]
    /\ last' = [op |-> writers.op, status |-> "NONE"]
    /\ UNCHANGED <<seq, page, nadds, accepted, was_reset, storage, chunk_cache, searcher, panic>>

\* the end of close and reset: runs_.clear(), the unlock, the store of 1 to
\* sequence_number_, and for close the merge_and_compress of a non-empty ready_
clear_and_finish(s, target, op) ==
    IF op = "close" /\ s.ready_ # <<>>
    THEN merge_and_compress([s EXCEPT !.runs_ = <<>>, !.sequence_number_ = 1], target, TRUE)
    ELSE {[seq |-> [s EXCEPT !.runs_ = <<>>, !.sequence_number_ = 1], page |-> target,
           status |-> "SUCCESS", panic |-> FALSE]}

MoveClear ==
    /\ ~panic
    /\ writers.pc = "clear"
    /\ \E r \in clear_and_finish(seq, page, writers.op) :
        /\ seq' = r.seq
        /\ page' = r.page
        /\ panic' = r.panic
        /\ last' = [op |-> writers.op, status |-> r.status]
    /\ writers' = WriterIdle
    /\ was_reset' = (was_reset \/ writers.op = "reset")
    /\ UNCHANGED <<nadds, accepted, storage, chunk_cache, searcher>>

\* Sequencer::search: the read of sequence_number_ and the test on it
LocksSearchEnter(backward, sequence_number) ==
    /\ ~panic
    /\ searcher.pc = "idle"
    /\ searcher' = IF seq.sequence_number_ % 2 # 0 \/ sequence_number # seq.sequence_number_
                   THEN searcher
                   ELSE [pc |-> "copy", holds |-> 0, seq_id |-> seq.sequence_number_,
                         q |-> [lowerbound |-> 0, upperbound |-> MaxTs, ids |-> {1},
                                backward |-> backward]]
    /\ last' = [op |-> "search", status |-> IF seq.sequence_number_ % 2 # 0
                                               \/ sequence_number # seq.sequence_number_
                                            THEN "BUSY" ELSE "NONE"]
    /\ UNCHANGED <<seq, page, nadds, accepted, was_reset, storage, chunk_cache, writers, panic>>

\* Sequencer::search: pruns = runs_ under runs_resize_lock_
LocksSearchCopy ==
    /\ ~panic
    /\ searcher.pc = "copy"
    /\ ~writers.resize
    /\ searcher' = [pc |-> "filter", holds |-> 0, seq_id |-> searcher.seq_id, q |-> searcher.q,
                    pruns |-> seq.runs_, run_ix |-> 1, filtered |-> <<>>,
                    moving |-> writers.pc \in {"split", "move", "unlocked"}]
    /\ last' = [op |-> "search", status |-> "NONE"]
    /\ UNCHANGED <<seq, page, nadds, accepted, was_reset, storage, chunk_cache, writers, panic>>

\* Sequencer::search: rwlock.rdlock() on the stripe of the next run
LocksSearchRdlock ==
    /\ ~panic
    /\ searcher.pc = "filter"
    /\ searcher.holds = 0
    /\ searcher.run_ix <= Len(searcher.pruns)
    /\ ~writers.stripes
    /\ searcher' = [searcher EXCEPT !.holds = searcher.run_ix]
    /\ last' = [op |-> "search", status |-> "NONE"]
    /\ UNCHANGED <<seq, page, nadds, accepted, was_reset, storage, chunk_cache, writers, panic>>

\* Sequencer::search: filter(run, query, &filtered) and rwlock.unlock(); on a
\* shared_ptr that was moved from, run->empty() reads through a null pointer
LocksSearchFilter ==
    /\ ~panic
    /\ searcher.pc = "filter"
    /\ searcher.holds # 0
    /\ searcher' = IF searcher.pruns[searcher.holds] = NullRun
                   THEN [pc |-> "idle", holds |-> 0]
                   ELSE [searcher EXCEPT !.holds = 0, !.run_ix = @ + 1,
                            !.filtered = @ \o filter(searcher.pruns[searcher.holds], searcher.q)]
    /\ panic' = (searcher.pruns[searcher.holds] = NullRun)
    /\ last' = [op |-> "search",
                status |-> IF searcher.pruns[searcher.holds] = NullRun
                           THEN "NULL_RUN" ELSE "NONE"]
    /\ UNCHANGED <<seq, page, nadds, accepted, was_reset, storage, chunk_cache, writers>>

\* Sequencer::search: kway_merge of the filtered runs and the second read of
\* sequence_number_
LocksSearchLeave ==
    /\ ~panic
    /\ searcher.pc = "filter"
    /\ searcher.holds = 0
    /\ searcher.run_ix > Len(searcher.pruns)
    /\ \E m \in kway_merge(searcher.filtered, ReadySize(searcher.filtered),
                           IF searcher.q.backward THEN AKU_CURSOR_DIR_BACKWARD
                           ELSE AKU_CURSOR_DIR_FORWARD) :
        last' = [op |-> "search", out |-> m.out,
                 status |-> IF searcher.seq_id # seq.sequence_number_
                            THEN "BUSY" ELSE "SUCCESS"]
    /\ searcher' = [pc |-> "idle", holds |-> 0]
    /\ UNCHANGED <<seq, page, nadds, accepted, was_reset, storage, chunk_cache, writers, panic>>

NextLocks ==
    \/ \E ts \in Timestamps : LocksAdd(ts, 1, 0)
    \/ \E ts \in Timestamps : CheckpointBegin(ts, 1, 0)
    \/ CheckpointSplit
    \/ CheckpointLock
    \/ CheckpointSwap
    \/ LocksMerge
    \/ \E op \in {"close", "reset"} : MoveLock(op)
    \/ MoveRun
    \/ MoveUnlock
    \/ MoveResizeLock
    \/ MoveClear
    \/ \E backward \in BOOLEAN, sequence_number \in Generations :
          LocksSearchEnter(backward, sequence_number)
    \/ LocksSearchCopy
    \/ LocksSearchRdlock
    \/ LocksSearchFilter
    \/ LocksSearchLeave

SpecLocks == InitLocks /\ [][NextLocks]_vars

(***************************************************************************)
(* A page driven directly through add_entry, complete_chunk,               *)
(* sync_next_index, reuse and close                                        *)
(***************************************************************************)
\* payload sizes of the entries add_entry is given
EntryLengths == {SizeofChunkDesc, SizeofChunkDesc + SizeofDouble}
EntryTimestamps == {1, 3}

\* the chunks complete_chunk is given, as rows in time order
ChunkRows ==
    {<<TimeSeriesValue(0, 1, 0)>>,
     <<TimeSeriesValue(2, 1, 0)>>,
     <<TimeSeriesValue(1, 2, 0), TimeSeriesValue(3, 1, 0)>>}

\* the offsets a caller of sync_next_index can hold: those of the entries in
\* the index, or last_offset
EntryOffsets(p) == {p.page_index[i] : i \in 1..Min2(p.count, Len(p.page_index))} \cup {p.last_offset}

PageAddEntry(param, timestamp, length) ==
    /\ ~panic
    /\ \E r \in {add_entry(page, param, timestamp, [length |-> length, value |-> 0])} :
        /\ page' = r.page
        /\ last' = [op |-> "add_entry", status |-> r.status]
    /\ UNCHANGED <<seq, nadds, accepted, was_reset, storage, chunk_cache, writers, searcher, panic>>

PageCompleteChunk(rows) ==
    /\ ~panic
    /\ \E r \in complete_chunk_outcomes(page, ChunkHeader(convert_from_time_order(rows))) :
        /\ page' = r.page
        /\ panic' = r.panic
        /\ last' = [op |-> "complete_chunk", status |-> r.status]
    /\ UNCHANGED <<seq, nadds, accepted, was_reset, storage, chunk_cache, writers, searcher>>

PageSyncNextIndex(offset, rand_val, g) ==
    /\ ~panic
    /\ \E r \in {sync_next_index(page, offset, rand_val, FALSE, g)} :
        /\ page' = r.page
        /\ panic' = r.panic
        /\ last' = [op |-> "sync_next_index", status |-> "SUCCESS"]
    /\ UNCHANGED <<seq, nadds, accepted, was_reset, storage, chunk_cache, writers, searcher>>

PageSortHistogram ==
    /\ ~panic
    /\ page' = sync_next_index(page, 0, 0, TRUE, 0).page
    /\ last' = [op |-> "sort_histogram", status |-> "SUCCESS"]
    /\ UNCHANGED <<seq, nadds, accepted, was_reset, storage, chunk_cache, writers, searcher, panic>>

PageReuse ==
    /\ ~panic
    /\ page.open_count < MaxOpen
    /\ page' = reuse(page)
    /\ last' = [op |-> "reuse", status |-> "SUCCESS"]
    /\ UNCHANGED <<seq, nadds, accepted, was_reset, storage, chunk_cache, writers, searcher, panic>>

PageClose ==
    /\ ~panic
    /\ page.close_count < MaxOpen
    /\ page' = PageHeader_close(page)
    /\ last' = [op |-> "close", status |-> "SUCCESS"]
    /\ UNCHANGED <<seq, nadds, accepted, was_reset, storage, chunk_cache, writers, searcher, panic>>

NextPage ==
    \/ \E param \in ParamIds, timestamp \in EntryTimestamps, length \in EntryLengths :
          PageAddEntry(param, timestamp, length)
    \/ \E rows \in ChunkRows : PageCompleteChunk(rows)
    \/ \E offset \in EntryOffsets(page), rand_val \in RandVals, g \in GarbageTs :
          PageSyncNextIndex(offset, rand_val, g)
    \/ PageSortHistogram
    \/ PageReuse
    \/ PageClose

SpecPage == InitSeq /\ [][NextPage]_vars

\* the page driven through add_entry and complete_chunk only
NextChunk ==
    \/ \E param \in ParamIds, timestamp \in EntryTimestamps, length \in EntryLengths :
          PageAddEntry(param, timestamp, length)
    \/ \E rows \in ChunkRows : PageCompleteChunk(rows)

SpecChunk == InitSeq /\ [][NextChunk]_vars

(***************************************************************************)
(* A page given chunks of up to three rows: with three rows the first and  *)
(* the last row of the id-major order need not carry the smallest and the  *)
(* largest timestamp of the chunk                                          *)
(***************************************************************************)
\* rows in time order; id-major order puts the row of timestamp 3 in the
\* middle of the first chunk and the row of timestamp 0 in the middle of the
\* second
WideChunkRows ==
    ChunkRows \cup
        {<<TimeSeriesValue(1, 1, 0), TimeSeriesValue(2, 2, 0), TimeSeriesValue(3, 1, 0)>>,
         <<TimeSeriesValue(0, 2, 0), TimeSeriesValue(1, 1, 0), TimeSeriesValue(2, 3, 0)>>}

NextBox ==
    \/ \E param \in ParamIds, timestamp \in EntryTimestamps, length \in EntryLengths :
          PageAddEntry(param, timestamp, length)
    \/ \E rows \in WideChunkRows : PageCompleteChunk(rows)

SpecBox == InitSeq /\ [][NextBox]_vars

(***************************************************************************)
(* A page driven through add_entry with payloads of any length, 0 included, *)
(* sync_next_index and reuse                                               *)
(***************************************************************************)
\* payload sizes add_entry is given
RangeLengths == {0} \cup EntryLengths

AddEntry(param, timestamp, length) ==
    /\ ~panic
    /\ \E r \in {add_entry(page, param, timestamp, [length |-> length, value |-> 0])} :
        /\ page' = r.page
        /\ last' = [op |-> "add_entry", status |-> r.status, length |-> length,
                    before |-> page]
    /\ UNCHANGED <<seq, nadds, accepted, was_reset, storage, chunk_cache, writers, searcher, panic>>

NextEntry ==
    \/ \E param \in ParamIds, timestamp \in EntryTimestamps, length \in RangeLengths :
          AddEntry(param, timestamp, length)
    \/ \E offset \in EntryOffsets(page), rand_val \in RandVals, g \in GarbageTs :
          PageSyncNextIndex(offset, rand_val, g)
    \/ PageReuse

SpecEntry == InitSeq /\ [][NextEntry]_vars

(***************************************************************************)
(* A Storage driven through write_double and close; the writer uses one    *)
(* series                                                                  *)
(***************************************************************************)
InitStorage ==
    /\ seq = Sequencer
    /\ page = FreshPage(0)
    /\ nadds = 0
    /\ accepted = {}
    /\ was_reset = FALSE
    /\ storage \in {Storage(page_size) : page_size \in {SmallPageLength, PageLength}}
    /\ chunk_cache = ChunkCache(CacheLimit)
    /\ writers = NoWriters
    /\ searcher = NoSearch
    /\ last = NoCall
    /\ panic = FALSE

StorageWrite(param, ts, value) ==
    /\ ~panic
    /\ nadds < MaxWrites
    /\ \E r \in write_double(storage, param, ts, value) :
        /\ storage' = r.storage
        /\ panic' = r.panic
        /\ last' = [op |-> "write", value |-> TimeSeriesValue(ts, param, value),
                    status |-> r.status, merge_status |-> r.merge_status,
                    pending |-> r.pending,
                    active_volume_index_ |-> storage.active_volume_index_]
    /\ nadds' = nadds + 1
    /\ UNCHANGED <<seq, page, accepted, was_reset, chunk_cache, writers, searcher>>

StorageClose ==
    /\ ~panic
    /\ \E r \in Storage_close(storage) :
        /\ storage' = r.storage
        /\ panic' = r.panic
        /\ last' = [op |-> "storage_close", status |-> r.status]
    /\ UNCHANGED <<seq, page, nadds, accepted, was_reset, chunk_cache, writers, searcher>>

NextStorage ==
    \/ \E ts \in Timestamps, value \in Values : StorageWrite(1, ts, value)
    \/ StorageClose

SpecStorage == InitStorage /\ [][NextStorage]_vars

(***************************************************************************)
(* A Storage with a durability setting, driven through write_double with   *)
(* timestamps at window boundaries                                         *)
(***************************************************************************)
Durabilities == {"AKU_MAX_DURABILITY", "AKU_DURABILITY_SPEED_TRADEOFF", "AKU_MAX_WRITE_SPEED"}

\* _write_impl, the switch on config_.durability after merge_and_compress
\* returned merge_status: every odd merge_lock flushes
flush_every_merge(durability, merge_status, merge_lock) ==
    /\ merge_status = "SUCCESS"
    /\ durability \in {"AKU_MAX_DURABILITY", "AKU_DURABILITY_SPEED_TRADEOFF"}

\* _write_impl, the switch on config_.durability after merge_and_compress
\* returned merge_status: TRUE when active_volume_->flush() is called
flush_after_merge(durability, merge_status, merge_lock) ==
    /\ merge_status = "SUCCESS"
    /\ CASE durability = "AKU_MAX_DURABILITY" -> TRUE
         [] durability = "AKU_DURABILITY_SPEED_TRADEOFF" -> merge_lock % 8 = 1
         [] durability = "AKU_MAX_WRITE_SPEED" -> FALSE

\* timestamps the writer uses: the first of each window
WindowTimestamps == {k * window_size_ : k \in 0..MaxWindows}

InitDurable ==
    /\ seq = Sequencer
    /\ page = FreshPage(0)
    /\ nadds = 0
    /\ accepted = {}
    /\ was_reset = FALSE
    /\ storage = Storage(DurablePageLength)
    /\ chunk_cache = ChunkCache(CacheLimit)
    /\ writers = NoWriters
    /\ searcher = NoSearch
    /\ \E durability \in Durabilities : last = [op |-> "config", durability |-> durability]
    /\ panic = FALSE

\* Storage::write_double; merge_lock is what cache_->add returned and flushed
\* is whether the write called active_volume_->flush()
DurableWrite(param, ts, value) ==
    /\ ~panic
    /\ nadds < MaxWrites
    /\ \E r \in write_double(storage, param, ts, value),
          a \in {add(storage.volumes_[storage.active_volume_ + 1].cache_,
                     TimeSeriesValue(ts, param, value))} :
        /\ storage' = r.storage
        /\ panic' = r.panic
        /\ last' = [op |-> "write", durability |-> last.durability,
                    status |-> r.status, merge_status |-> r.merge_status,
                    merge_lock |-> a.lock,
                    flushed |-> flush_after_merge(last.durability, r.merge_status, a.lock)]
    /\ nadds' = nadds + 1
    /\ UNCHANGED <<seq, page, accepted, was_reset, chunk_cache, writers, searcher>>

NextDurable ==
    \E ts \in WindowTimestamps, value \in Values : DurableWrite(1, ts, value)

SpecDurable == InitDurable /\ [][NextDurable]_vars

(***************************************************************************)
(* Storage::search next to the writer. A query is [parsed, started,        *)
(* backward, type]: whether build_query_processor accepted it, what        *)
(* query_processor->start() returned, and its range. The cursor is          *)
(* modelled by the order of the calls: visited lists the volumes whose     *)
(* page was searched and caches the volumes whose Sequencer was searched.  *)
(***************************************************************************)
RangeTypes == {"INSTANT", "CONTINUOUS"}

StorageQueries ==
    [parsed : BOOLEAN, started : BOOLEAN, backward : BOOLEAN, type : RangeTypes]

\* the forward loop of Storage::search: index = ix % volumes_.size() for ix
\* from starting_ix = page_id + 1 up to starting_ix + volumes_.size() - 1
search_forward_order(st) ==
    [k \in 1..Len(st.volumes_) |->
        (st.volumes_[st.active_volume_ + 1].page_.page_id + 1 + (k - 1)) % Len(st.volumes_)]

\* the backward loop started at the volume after the active one
search_backward_from_oldest(st) ==
    [k \in 1..Len(st.volumes_) |->
        (st.volumes_[st.active_volume_ + 1].page_.page_id + 1 + Len(st.volumes_) - (k - 1))
            % Len(st.volumes_)]

\* the backward loop of Storage::search: index = ix % volumes_.size() for ix
\* from starting_ix + volumes_.size() down to starting_ix + 1, starting_ix
\* being page_id
search_backward_order(st) ==
    [k \in 1..Len(st.volumes_) |->
        (st.volumes_[st.active_volume_ + 1].page_.page_id + Len(st.volumes_) - (k - 1))
            % Len(st.volumes_)]

\* Storage::search
Storage_search(st, q) ==
    IF ~q.parsed
    THEN [status |-> "QUERY_PARSING_ERROR", visited |-> <<>>, caches |-> <<>>]
    ELSE IF ~q.started
    THEN [status |-> "NONE", visited |-> <<>>, caches |-> <<>>]
    ELSE IF ~q.backward
    THEN [status |-> "SUCCESS", visited |-> search_forward_order(st),
          caches |-> IF q.type = "INSTANT" THEN search_forward_order(st) ELSE <<>>]
    ELSE IF q.type = "CONTINUOUS"
    THEN [status |-> "NOT_IMPLEMENTED", visited |-> <<>>, caches |-> <<>>]
    ELSE [status |-> "SUCCESS", visited |-> search_backward_order(st),
          caches |-> search_backward_order(st)]

StorageSearch(q) ==
    /\ ~panic
    /\ \E r \in {Storage_search(storage, q)} :
        last' = [op |-> "storage_search", query |-> q, status |-> r.status,
                 visited |-> r.visited, caches |-> r.caches]
    /\ UNCHANGED <<seq, page, nadds, accepted, was_reset, storage, chunk_cache, writers, searcher, panic>>

NextStorageSearch ==
    \/ \E ts \in Timestamps, value \in Values : StorageWrite(1, ts, value)
    \/ \E q \in StorageQueries : StorageSearch(q)

SpecStorageSearch == InitStorage /\ [][NextStorageSearch]_vars

(***************************************************************************)
(* kway_merge applied to sorted runs with a consumer that accepts limit    *)
(* elements and then returns false                                         *)
(***************************************************************************)
MergeSamples == {TimeSeriesValue(ts, id, 0) : ts \in 0..MaxMergeTs, id \in ParamIds}

\* the runs a Sequencer can hold: not empty, non-decreasing in time order
SortedRuns ==
    {run \in UNION {[1..n -> MergeSamples] : n \in 1..MaxRunLen} :
        \A i \in 1..(Len(run) - 1) : ~TimeLess(run[i + 1], run[i])}

MergeInputs == UNION {[1..n -> SortedRuns] : n \in 1..MaxMergeRuns}

MergeLimits == 0..(MaxRunLen + 1)

InitMerge ==
    /\ seq = Sequencer
    /\ page = FreshPage(0)
    /\ nadds = 0
    /\ accepted = {}
    /\ was_reset = FALSE
    /\ storage = Storage(PageLength)
    /\ chunk_cache = ChunkCache(CacheLimit)
    /\ writers = NoWriters
    /\ searcher = NoSearch
    /\ last \in {[op |-> "runs", runs |-> runs] : runs \in MergeInputs}
    /\ panic = FALSE

\* kway_merge<TimeOrderMergePredicate, dir>(runs, cons): out is what the
\* consumer accepted, remaining the content of runs on return
Merge(limit, dir) ==
    /\ last.op = "runs"
    /\ \E r \in kway_merge(last.runs, limit, dir) :
        last' = [op |-> "kway_merge", runs |-> last.runs, limit |-> limit, dir |-> dir,
                 out |-> r.out, remaining |-> r.runs]
    /\ UNCHANGED <<seq, page, nadds, accepted, was_reset, storage, chunk_cache, writers, searcher, panic>>

NextMerge ==
    \E limit \in MergeLimits, dir \in {AKU_CURSOR_DIR_FORWARD, AKU_CURSOR_DIR_BACKWARD} :
        Merge(limit, dir)

SpecMerge == InitMerge /\ [][NextMerge]_vars

(***************************************************************************)
(* FanInCursorCombinator::read_impl_ over CoroCursor inputs. An input is   *)
(* the results its producer puts, the point where the producer calls       *)
(* set_error instead of the next put (NoFail: it calls complete after the  *)
(* last result), and the CoroCursor fields. data_offset tells the results  *)
(* apart: 10 * cursor + position.                                          *)
(***************************************************************************)
\* the buffer read_impl_ reads into (0x200 in the source)
BUF_LEN == 2
\* results of one input
MaxFanInLen == 3
MaxFanInTs == 1

NoFail == 0 - 1

FanInKeys == {[timestamp |-> ts, param_id |-> id] : ts \in 0..MaxFanInTs, id \in ParamIds}

\* (timestamp, param_id) compared as std::tuple compares
KeyLess(l, r) ==
    l.timestamp < r.timestamp \/ (l.timestamp = r.timestamp /\ l.param_id < r.param_id)

\* a HeapPred that is the forward order whatever dir is
HeapPred_forward(dir, lhs, rhs) == KeyLess(rhs.res, lhs.res)

\* HeapPred::operator()
HeapPred(dir, lhs, rhs) ==
    IF dir = AKU_CURSOR_DIR_BACKWARD THEN KeyLess(lhs.res, rhs.res)
    ELSE KeyLess(rhs.res, lhs.res)

\* the key sequences an input can deliver: sorted in the query direction
SortedKeys(dir) ==
    {s \in UNION {[1..n -> FanInKeys] : n \in 0..MaxFanInLen} :
        \A i \in 1..(Len(s) - 1) :
            IF dir = AKU_CURSOR_DIR_BACKWARD THEN ~KeyLess(s[i], s[i + 1])
            ELSE ~KeyLess(s[i + 1], s[i])}

\* a CoroCursor whose producer has not run yet
CoroCursor(index, keys, fail_at) ==
    [items |-> [k \in 1..Len(keys) |->
                   [timestamp |-> keys[k].timestamp, param_id |-> keys[k].param_id,
                    data_offset |-> 10 * index + k]],
     pos |-> 0, fail_at |-> fail_at,
     complete_ |-> FALSE, error_ |-> FALSE, error_code_ |-> 0]

\* the error an input's producer reports
InputError(index) == 100 + index

\* CoroCursor::read(buf, buf_len): the producer runs until a put finds the
\* buffer full, or until it calls set_error or complete
CoroCursor_read(c, index, buf_len) ==
    IF c.fail_at # NoFail /\ c.fail_at - c.pos <= buf_len
    THEN [buffer |-> SubSeq(c.items, c.pos + 1, c.fail_at),
          cursor |-> [c EXCEPT !.pos = c.fail_at, !.complete_ = TRUE, !.error_ = TRUE,
                               !.error_code_ = InputError(index)]]
    ELSE IF Len(c.items) - c.pos <= buf_len
    THEN [buffer |-> SubSeq(c.items, c.pos + 1, Len(c.items)),
          cursor |-> [c EXCEPT !.pos = Len(c.items), !.complete_ = TRUE]]
    ELSE [buffer |-> SubSeq(c.items, c.pos + 1, c.pos + buf_len),
          cursor |-> [c EXCEPT !.pos = c.pos + buf_len]]

\* the heap items made of what a read returned
heap_items(buffer, cur_index) ==
    {[res |-> buffer[k], cur_index |-> cur_index, cur_count |-> Len(buffer) - k + 1] :
        k \in 1..Len(buffer)}

\* CoroCursor::set_error on out_cursor_
out_set_error(f, error_code) ==
    [f EXCEPT !.pc = "error",
              !.out_cursor_ = [complete_ |-> TRUE, error_ |-> TRUE, error_code_ |-> error_code]]

\* one turn of the first loop of read_impl_, over the inputs from cur_index on
RECURSIVE fill_heap(_, _)
fill_heap(f, cur_index) ==
    IF cur_index > Len(f.in_cursors_) THEN f
    ELSE IF f.in_cursors_[cur_index].complete_ THEN fill_heap(f, cur_index + 1)
    ELSE LET r == CoroCursor_read(f.in_cursors_[cur_index], cur_index, BUF_LEN)
         IN  IF r.cursor.error_
             THEN out_set_error([f EXCEPT !.in_cursors_[cur_index] = r.cursor],
                                r.cursor.error_code_)
             ELSE fill_heap([f EXCEPT !.in_cursors_[cur_index] = r.cursor,
                                      !.heap = @ \cup heap_items(r.buffer, cur_index)],
                            cur_index + 1)

\* read_impl_ up to make_heap: the test of the inputs for an error they
\* already hold, then the first read of every input
read_impl_begin(f) ==
    IF \E i \in 1..Len(f.in_cursors_) : f.in_cursors_[i].error_
    THEN out_set_error(f, f.in_cursors_[CHOOSE i \in 1..Len(f.in_cursors_) :
                                           /\ f.in_cursors_[i].error_
                                           /\ \A j \in 1..(i - 1) : ~f.in_cursors_[j].error_
                                       ].error_code_)
    ELSE fill_heap([f EXCEPT !.pc = "merge"], 1)

\* what pop_heap can bring to the back: an item no other item goes before
heap_top(f) ==
    {item \in f.heap : \A other \in f.heap : ~HeapPred(f.direction_, item, other)}

\* one turn of the while loop of read_impl_ that popped item
read_impl_pop(f, item) ==
    LET put == [f EXCEPT !.out = Append(@, item.res), !.heap = @ \ {item}]
        cursor == f.in_cursors_[item.cur_index]
        r == CoroCursor_read(cursor, item.cur_index, BUF_LEN)
    IN  IF item.cur_count = 1 /\ ~cursor.complete_
        THEN IF r.cursor.error_
             THEN out_set_error([put EXCEPT !.in_cursors_[item.cur_index] = r.cursor],
                                r.cursor.error_code_)
             ELSE [put EXCEPT !.in_cursors_[item.cur_index] = r.cursor,
                              !.heap = @ \cup heap_items(r.buffer, item.cur_index)]
        ELSE put

\* where a producer fails: nowhere, at once, or after its first put (inside
\* the first batch)
FailPoints == {NoFail, 0, 1}

\* the inputs of a combinator: sorted results, with or without an error on
\* the way; an input whose producer fails before the first put may hold its
\* error from the start
FanInInputs(dir, index) ==
    {c \in {CoroCursor(index, keys, fail_at) :
                keys \in SortedKeys(dir), fail_at \in FailPoints} :
        c.fail_at <= Len(c.items)}
    \cup {[CoroCursor(index, <<>>, 0) EXCEPT !.complete_ = TRUE, !.error_ = TRUE,
                                            !.error_code_ = InputError(index)]}

FanInCursorCombinator(cursors, direction) ==
    [pc |-> "start", in_cursors_ |-> cursors, direction_ |-> direction, heap |-> {},
     out |-> <<>>, out_cursor_ |-> [complete_ |-> FALSE, error_ |-> FALSE, error_code_ |-> 0]]

InitFanIn ==
    /\ seq = Sequencer
    /\ page = FreshPage(0)
    /\ nadds = 0
    /\ accepted = {}
    /\ was_reset = FALSE
    /\ storage = Storage(PageLength)
    /\ chunk_cache = ChunkCache(CacheLimit)
    /\ writers = NoWriters
    /\ \E dir \in {AKU_CURSOR_DIR_FORWARD, AKU_CURSOR_DIR_BACKWARD} :
          \E a \in FanInInputs(dir, 1), b \in FanInInputs(dir, 2) :
              searcher = FanInCursorCombinator(<<a, b>>, dir)
    /\ last = NoCall
    /\ panic = FALSE

FanInBegin ==
    /\ searcher.pc = "start"
    /\ searcher' = read_impl_begin(searcher)
    /\ last' = [op |-> "read_impl_", status |-> "NONE"]
    /\ UNCHANGED <<seq, page, nadds, accepted, was_reset, storage, chunk_cache, writers, panic>>

FanInPop ==
    /\ searcher.pc = "merge"
    /\ \E item \in heap_top(searcher) :
        searcher' = read_impl_pop(searcher, item)
    /\ last' = [op |-> "read_impl_", status |-> "NONE"]
    /\ UNCHANGED <<seq, page, nadds, accepted, was_reset, storage, chunk_cache, writers, panic>>

\* out_cursor_.complete(caller) after the heap ran empty
FanInComplete ==
    /\ searcher.pc = "merge"
    /\ searcher.heap = {}
    /\ searcher' = [searcher EXCEPT !.pc = "complete", !.out_cursor_.complete_ = TRUE]
    /\ last' = [op |-> "read_impl_", status |-> "SUCCESS"]
    /\ UNCHANGED <<seq, page, nadds, accepted, was_reset, storage, chunk_cache, writers, panic>>

NextFanIn ==
    \/ FanInBegin
    \/ FanInPop
    \/ FanInComplete

SpecFanIn == InitFanIn /\ [][NextFanIn]_vars

\* the coroutine of out_cursor_ is resumed by every read of the consumer
\* until it completes
SpecFanInLive == SpecFanIn /\ WF_vars(NextFanIn)

(***************************************************************************)
(* Properties of the Sequencer                                             *)
(***************************************************************************)
\* the samples of a list of runs, as a set
SampleSet(runs) == {Samples(runs)[i] : i \in 1..Len(Samples(runs))}

\* a run is non-decreasing in time order
IsSortedRun(run) == \A i \in 1..(Len(run) - 1) : ~TimeLess(run[i + 1], run[i])

\* C1: a write is refused with LATE_WRITE exactly when it is more than
\* window_size_ behind top_timestamp_: ts = top - W is accepted, ts = top - W - 1
\* is rejected
C1_LateWriteBoundary ==
    last.op = "add" =>
        /\ last.status \in {"SUCCESS", "LATE_WRITE"}
        /\ last.status = "LATE_WRITE" <=> last.top_timestamp_ - last.value.ts > window_size_

\* a write exactly window_size_ behind the top was accepted
C1_Witness ==
    /\ last.op = "add"
    /\ last.top_timestamp_ >= window_size_
    /\ last.value.ts = last.top_timestamp_ - window_size_
    /\ last.status = "SUCCESS"
    /\ last.value \in SampleSet(seq.runs_)

\* C8 as stated: in every state every sample in runs_ has
\* ts >= checkpoint_ * W - W
C8_Original ==
    \A v \in SampleSet(seq.runs_) :
        v.ts >= get_timestamp_(seq.checkpoint_) - window_size_

\* C8: right after an add whose make_checkpoint_ advanced checkpoint_ by exactly
\* one window and kept its split (the generation it returned is odd), every
\* sample in runs_ has ts >= checkpoint_ * W - W
C8_RunsAfterKeptSplit ==
    (/\ last.op = "add"
     /\ ~panic
     /\ last.lock % 2 = 1
     /\ seq.checkpoint_ = last.checkpoint_ + 1)
    => \A v \in SampleSet(seq.runs_) :
           v.ts >= get_timestamp_(seq.checkpoint_) - window_size_

\* a one-window advance from a later window moved old samples to ready_
C8_Witness ==
    /\ last.op = "add"
    /\ ~panic
    /\ last.lock % 2 = 1
    /\ last.checkpoint_ >= 1
    /\ seq.checkpoint_ = last.checkpoint_ + 1
    /\ seq.ready_ # <<>>
    /\ seq.runs_ # <<>>
    /\ \E v \in SampleSet(seq.ready_) : v.ts < get_timestamp_(last.checkpoint_)

C10_RunsSorted ==
    /\ \A i \in 1..Len(seq.runs_) : IsSortedRun(seq.runs_[i])
    /\ \A i \in 1..Len(seq.ready_) : IsSortedRun(seq.ready_[i])

\* merge_and_compress met a full page and pushed what it had merged back
C10_Witness ==
    /\ last.op \in {"merge_and_compress", "close"}
    /\ last.status = "OVERFLOW"
    /\ ~panic
    /\ seq.runs_ # <<>>

C4_CountCoversSyncCount == page.count >= page.sync_count

\* sync_next_index has synced the last entry of a non-empty page
C4_Witness ==
    /\ last.op = "sync_next_index"
    /\ ~panic
    /\ page.count > 0
    /\ page.sync_count = page.count

\* the synced positions of the index that hold a sentinel with this paramid
\* and this ChunkDesc
SyncedSentinels(p, param, desc) ==
    {i \in 1..p.sync_count :
        /\ p.page_index[i] \in DOMAIN p.mem
        /\ p.mem[p.page_index[i]].kind = "entry"
        /\ p.mem[p.page_index[i]].param_id = param
        /\ p.mem[p.page_index[i]].value = desc}

\* the ChunkDescs of the chunks the synced index describes
SyncedChunkDescs(p) ==
    {p.mem[p.page_index[i]].value : i \in
        {j \in 1..p.sync_count :
            /\ p.page_index[j] \in DOMAIN p.mem
            /\ p.mem[p.page_index[j]].kind = "entry"
            /\ p.mem[p.page_index[j]].param_id \in {AKU_CHUNK_BWD_ID, AKU_CHUNK_FWD_ID}}}

\* C5 as stated: after any sequence of complete_chunk and add_entry calls that
\* returned, every chunk of the page is described by exactly two synced
\* sentinels, one AKU_CHUNK_BWD_ID and one AKU_CHUNK_FWD_ID, with the same
\* ChunkDesc
C5_Original ==
    ~panic =>
        \A desc \in SyncedChunkDescs(page) :
            /\ Cardinality(SyncedSentinels(page, AKU_CHUNK_BWD_ID, desc)) = 1
            /\ Cardinality(SyncedSentinels(page, AKU_CHUNK_FWD_ID, desc)) = 1

\* the timestamps of the histogram are non-decreasing
HistogramSorted(p) ==
    \A i \in 1..(Len(p.histogram) - 1) :
        p.histogram[i].timestamp <= p.histogram[i + 1].timestamp

\* the histogram holds at most AKU_HISTOGRAM_SIZE entries, all with an index
\* below sync_count
HistogramInRange(p) ==
    /\ Len(p.histogram) <= AKU_HISTOGRAM_SIZE
    /\ \A i \in 1..Len(p.histogram) : p.histogram[i].index < p.sync_count

\* C6 as stated: the histogram is in range in every state, and sorted by
\* timestamp after complete_chunk returns
C6_Original ==
    /\ HistogramInRange(page)
    /\ (last.op = "complete_chunk" /\ ~panic) => HistogramSorted(page)

\* C6: the histogram holds at most AKU_HISTOGRAM_SIZE entries and every index
\* in it is < sync_count in every state (also right after reuse); it is sorted
\* by timestamp after complete_chunk returns SUCCESS
C6_HistogramAfterChunk ==
    /\ HistogramInRange(page)
    /\ (last.op = "complete_chunk" /\ last.status = "SUCCESS" /\ ~panic)
          => HistogramSorted(page)

\* complete_chunk filled the histogram and its final sort reordered it
C6_Witness ==
    /\ last.op = "complete_chunk"
    /\ last.status = "SUCCESS"
    /\ Len(page.histogram) = AKU_HISTOGRAM_SIZE
    /\ page.histogram[1].index > page.histogram[2].index
    /\ page.histogram[1].timestamp < page.histogram[2].timestamp

(***************************************************************************)
(* Properties of the Storage                                               *)
(***************************************************************************)
\* the Sequencer attached to the active volume
ActiveCache == storage.volumes_[storage.active_volume_ + 1].cache_

\* C3: when merge_and_compress returns OVERFLOW during a Storage write, the
\* ring advances to the next volume, the write returns SUCCESS, and every
\* sample that was pending in the outgoing Sequencer, the chunk that did not
\* fit included, is held by the Sequencer of the new active volume
C3_OverflowKeepsPending ==
    (last.op = "write" /\ last.merge_status = "OVERFLOW" /\ ~panic) =>
        /\ last.status = "SUCCESS"
        /\ storage.active_volume_index_ = last.active_volume_index_ + 1
        /\ storage.active_volume_ = storage.active_volume_index_ % NumVolumes
        /\ SameBag(Flatten(ActiveCache.runs_ \o ActiveCache.ready_), last.pending)
        /\ Len(last.pending) >= c_threshold_
        /\ Occurrences(last.pending, last.value) > 0

\* a write met a page that already holds a chunk, and the ring advanced
C3_Witness ==
    /\ last.op = "write"
    /\ last.merge_status = "OVERFLOW"
    /\ ~panic
    /\ storage.active_volume_index_ = 1
    /\ storage.volumes_[1].page_.count > 0
    /\ Len(ActiveCache.runs_) > 0

\* C7: after creation and after any number of rotations, open_count >
\* close_count holds exactly for the page of the active volume; every other
\* page has open_count = close_count
C7_OnlyActivePageOpen ==
    \A i \in 1..Len(storage.volumes_) :
        IF i = storage.active_volume_ + 1
        THEN storage.volumes_[i].page_.open_count > storage.volumes_[i].page_.close_count
        ELSE storage.volumes_[i].page_.open_count = storage.volumes_[i].page_.close_count

\* the ring has wrapped around: the first volume is active for the second time
C7_Witness ==
    /\ storage.active_volume_index_ = NumVolumes
    /\ storage.active_volume_ = 0
    /\ storage.volumes_[1].page_.open_count = 2

(***************************************************************************)
(* The generation counter of the Sequencer                                 *)
(***************************************************************************)

RevertedCheckpoint ==
    /\ last'.op = "add"
    /\ ~panic'
    /\ last'.status = "SUCCESS"
    /\ last'.value.ts >= seq.top_timestamp_
    /\ get_checkpoint_(last'.value.ts) > seq.checkpoint_
    /\ ReadySize(seq.ready_ \o SplitRuns(seq.runs_, get_timestamp_(seq.checkpoint_)).ready)
           < c_threshold_

\* C12 as stated: after a make_checkpoint_ that found fewer than c_threshold_
\* samples in ready_, runs_ has as many runs as before the call and the
\* generation is even
C12_Original ==
    [][RevertedCheckpoint =>
        /\ Len(make_checkpoint_(seq, get_checkpoint_(last'.value.ts)).seq.runs_)
               = Len(seq.runs_)
        /\ make_checkpoint_(seq, get_checkpoint_(last'.value.ts)).seq.sequence_number_ % 2 = 0
      ]_vars

\* C12: after a make_checkpoint_ that found fewer than c_threshold_ samples in
\* ready_, runs_ holds the same samples as runs_ and ready_ held before, in at
\* least as many runs and at most one more per run it held, ready_ is empty,
\* the generation is even and is the flag add returns
C12_RevertKeepsSamples ==
    [][RevertedCheckpoint =>
        \E mc \in {make_checkpoint_(seq, get_checkpoint_(last'.value.ts))} :
            /\ ~mc.panic
            /\ SameBag(Flatten(mc.seq.runs_), Flatten(seq.runs_ \o seq.ready_))
            /\ Len(mc.seq.runs_) >= Len(seq.runs_)
            /\ Len(mc.seq.runs_) <= 2 * Len(seq.runs_) + Len(seq.ready_)
            /\ mc.seq.ready_ = <<>>
            /\ mc.seq.sequence_number_ % 2 = 0
            /\ mc.seq.sequence_number_ = seq.sequence_number_ + 2
            /\ last'.lock = mc.seq.sequence_number_
            /\ seq'.sequence_number_ = mc.seq.sequence_number_
            /\ SameBag(Flatten(seq'.runs_), Append(Flatten(mc.seq.runs_), last'.value))
      ]_vars

\* an add reverted a split: a run of samples older than the old checkpoint is
\* back in runs_ next to the run it was cut from
C12_Witness ==
    /\ last.op = "add"
    /\ ~panic
    /\ last.status = "SUCCESS"
    /\ last.lock % 2 = 0
    /\ last.lock >= 2
    /\ seq.checkpoint_ > last.checkpoint_
    /\ seq.ready_ = <<>>
    /\ Len(seq.runs_) >= 2
    /\ \E i \in 1..Len(seq.runs_) :
           \A k \in 1..Len(seq.runs_[i]) :
               seq.runs_[i][k].ts < get_timestamp_(last.checkpoint_)

(***************************************************************************)
(* PageHeader::search                                                      *)
(***************************************************************************)
\* the rows of the chunks described by a set of ChunkDescs, chunk by chunk
RECURSIVE ChunkRowsOf(_, _)
ChunkRowsOf(p, descs) ==
    IF descs = {} THEN <<>>
    ELSE LET d == CHOOSE x \in descs : \A y \in descs : x.begin_offset >= y.begin_offset
             h == decode_header(RegionBytes(p, d.begin_offset, d.end_offset), d.n_elements)
         IN  [i \in 1..Len(h.timestamps) |-> header_row(h, i - 1, 0, 0)]
                 \o ChunkRowsOf(p, descs \ {d})

\* the rows stored in the synced prefix of the page
StoredRows(p) == ChunkRowsOf(p, SyncedChunkDescs(p))

\* the stored rows a query asks for
MatchingRows(p, query) ==
    SelectSeq(StoredRows(p),
              LAMBDA row : /\ query.lowerbound <= row.ts
                           /\ row.ts <= query.upperbound
                           /\ row.id \in query.ids)

\* the timestamps of out follow the direction of the query
InQueryOrder(out, direction) ==
    \A i \in 1..(Len(out) - 1) :
        IF direction = AKU_CURSOR_DIR_BACKWARD
        THEN out[i].ts >= out[i + 1].ts ELSE out[i].ts <= out[i + 1].ts

\* C13: on a page written only by the Sequencer's flush, PageHeader::search
\* with a valid query emits exactly the stored rows whose timestamp lies in
\* [lowerbound, upperbound] and whose paramid matches, each once, ordered by
\* timestamp in the direction of the query
C13_Original ==
    (last.op = "page_search" /\ ~panic /\ validate_query(last.query)) =>
        /\ last.status = "COMPLETE"
        /\ SameBag(last.out, MatchingRows(page, last.query))
        /\ InQueryOrder(last.out, last.query.direction)

(***************************************************************************)
(* ChunkCache                                                              *)
(***************************************************************************)
\* number of bytes of the chunks cache_ holds under the given keys
RECURSIVE CachedBytes(_, _)
CachedBytes(c, keys) ==
    IF keys = {} THEN 0
    ELSE LET k == CHOOSE x \in keys : TRUE
         IN get_size(c.cache_[k]) + CachedBytes(c, keys \ {k})

\* C14: after every ChunkCache::put the total byte size of the cached chunks
\* does not exceed the configured limit.
C14_Original ==
    last.op = "put" =>
        CachedBytes(chunk_cache, DOMAIN chunk_cache.cache_) <= chunk_cache.size_limit_

\* key of the fifo_ entry an evicting put removes
EvictedKey == chunk_cache.fifo_[Len(chunk_cache.fifo_)].key

\* C15: whenever ChunkCache::put evicts a chunk, the evicted chunk is the one
\* inserted earliest among the chunks cached before the call.
C15_Original ==
    [][(last'.op = "put" /\ last'.evicted /\ ChunkCache_contains(chunk_cache, EvictedKey))
          => \A k \in DOMAIN chunk_cache.cache_ :
                 chunk_cache.cache_[EvictedKey].serial <= chunk_cache.cache_[k].serial]_vars

(***************************************************************************)
(* Column codecs                                                           *)
(***************************************************************************)
CodecPipelines == {"Base128", "RLE", "DeltaRLE", "ZigZag", "DeltaRLEOff"}

\* C16: a column written through an encoder pipeline and read back through
\* the matching decoder is the original column.
C16_Original ==
    last.op \in CodecPipelines => (last.result.ok /\ last.result.col = last.col)

\* the unsigned pipelines return the original column
C16_UnsignedRoundTrip ==
    last.op \in {"Base128", "RLE", "DeltaRLE"} =>
        (last.result.ok /\ last.result.col = last.col)

(***************************************************************************)
(* The ring of volumes                                                     *)
(***************************************************************************)
\* the ring position advance_volume_ left, and the one it made active
OutgoingIndex == last.before.active_volume_
IncomingIndex == (last.before.active_volume_ + 1) % NumVolumes

\* C17: after advance on a ring whose active index is i, the outgoing page
\* has close_count = open_count, the active volume is (i + 1) mod N, the new
\* active page has count = 0 and sync_count = 0, the page_id and close_count
\* of the page it replaced, and an open_count one larger.
C17_Original ==
    (last.op \in {"advance", "open"} /\ last.advanced /\ ~panic) =>
        /\ storage.volumes_[OutgoingIndex + 1].page_.close_count
               = storage.volumes_[OutgoingIndex + 1].page_.open_count
        /\ storage.active_volume_ = IncomingIndex
        /\ storage.volumes_[IncomingIndex + 1].page_.count = 0
        /\ storage.volumes_[IncomingIndex + 1].page_.sync_count = 0
        /\ storage.volumes_[IncomingIndex + 1].page_.page_id
               = last.before.volumes_[IncomingIndex + 1].page_.page_id
        /\ storage.volumes_[IncomingIndex + 1].page_.close_count
               = last.before.volumes_[IncomingIndex + 1].page_.close_count
        /\ storage.volumes_[IncomingIndex + 1].page_.open_count
               = last.before.volumes_[IncomingIndex + 1].page_.open_count + 1

\* C18: advance changes nothing when its argument differs from
\* active_volume_index_, so of the writers that read the same
\* active_volume_index_ and call advance, only one rotates the ring.
C18_Original ==
    \A w1, w2 \in Writers :
        (w1 # w2 /\ writers[w1].rotated /\ writers[w2].rotated)
            => writers[w1].local_rev # writers[w2].local_rev

\* a call whose argument differs from active_volume_index_ changes nothing
C18_StaleRevisionIsNoOp ==
    [][\A w \in Writers :
          (last'.op = "check" /\ last'.writer = w
               /\ writers[w].local_rev # storage.active_volume_index_)
              => storage' = storage]_vars

\* the largest index among the pages with the largest open_count
LargestOpenIndex(volumes_) ==
    CHOOSE i \in 0..(Len(volumes_) - 1) :
        /\ \A j \in 0..(Len(volumes_) - 1) :
               volumes_[j + 1].page_.open_count <= volumes_[i + 1].page_.open_count
        /\ \A j \in (i + 1)..(Len(volumes_) - 1) :
               volumes_[j + 1].page_.open_count < volumes_[i + 1].page_.open_count

\* C19: on open the volume with the largest open_count (the largest index
\* among equals) is selected and, if its page has open_count = close_count,
\* an advance follows; after a clean shutdown the active volume is the one
\* that was active before, after a stop between the closing of a page and
\* the reuse of its successor the successor is active.
C19_Original ==
    (last.op = "open" /\ ~panic) =>
        /\ last.selected = LargestOpenIndex(last.before.volumes_)
        /\ storage.active_volume_ =
               IF last.advanced THEN (last.selected + 1) % NumVolumes ELSE last.selected
        /\ last.clean => storage.active_volume_ = last.active
        /\ ~last.clean => storage.active_volume_ = (last.active + 1) % NumVolumes

(***************************************************************************)
(* PageHeader::add_entry                                                   *)
(***************************************************************************)
\* the call of add_entry was given a payload that fits the free space
EntryFits ==
    SizeofEntry + last.length + SizeofEntryOffset <= get_free_space(last.before)

\* C20: add_entry returns BAD_DATA when the payload length is 0 and OVERFLOW
\* when entry header + payload + offset exceed the free space, and then
\* leaves count, last_offset, the offset index and the bounding box as they
\* were; otherwise it returns SUCCESS and count grows by one; it never
\* changes sync_count.
C20_AddEntryStatus ==
    last.op = "add_entry" =>
        /\ last.length = 0 => last.status = "BAD_DATA"
        /\ (last.length # 0 /\ ~EntryFits) => last.status = "OVERFLOW"
        /\ last.status \in {"BAD_DATA", "OVERFLOW"} =>
              /\ page.count = last.before.count
              /\ page.last_offset = last.before.last_offset
              /\ page.page_index = last.before.page_index
              /\ page.bbox = last.before.bbox
        /\ (last.length # 0 /\ EntryFits) =>
              /\ last.status = "SUCCESS"
              /\ page.count = last.before.count + 1
        /\ page.sync_count = last.before.sync_count

\* an empty payload was refused on a page that holds synced entries and has
\* room for more
C20_Witness ==
    /\ last.op = "add_entry"
    /\ last.length = 0
    /\ last.status = "BAD_DATA"
    /\ page.sync_count > 0
    /\ get_free_space(page) >= SizeofEntry + SizeofEntryOffset

(***************************************************************************)
(* PageHeader::complete_chunk                                              *)
(***************************************************************************)
\* C21: complete_chunk returns SUCCESS or OVERFLOW without reaching a panic,
\* and when it returns OVERFLOW the page's count, sync_count, last_offset and
\* offset index are the same as before the call.
C21_Original ==
    [][(last'.op = "complete_chunk") =>
          /\ ~panic'
          /\ last'.status \in {"SUCCESS", "OVERFLOW"}
          /\ last'.status = "OVERFLOW" =>
                /\ page'.count = page.count
                /\ page'.sync_count = page.sync_count
                /\ page'.last_offset = page.last_offset
                /\ page'.page_index = page.page_index]_vars

(***************************************************************************)
(* Sequencer::search next to a writer                                      *)
(***************************************************************************)
\* C22: search reports BUSY when the generation read at entry is odd or
\* differs from the expected one, or differs from the generation read after
\* the scan; a search that ends without BUSY ran with no checkpoint or flush
\* storing to the generation between its entry and its end.
C22_Original ==
    /\ last.op = "search_enter" =>
          (last.status = "BUSY" <=>
              (last.seq_id % 2 # 0 \/ last.sequence_number # last.seq_id))
    /\ last.op = "search_leave" =>
          /\ last.seq_id # seq.sequence_number_ => last.status = "BUSY"
          /\ last.status # "BUSY" => ~last.written

\* the three tests of search alone
C22_BusyTests ==
    /\ last.op = "search_enter" =>
          (last.status = "BUSY" <=>
              (last.seq_id % 2 # 0 \/ last.sequence_number # last.seq_id))
    /\ last.op = "search_leave" =>
          (last.status = "BUSY" <=> last.seq_id # seq.sequence_number_)

(***************************************************************************)
(* Storage::_write_impl and the durability setting                         *)
(***************************************************************************)
\* C23 as stated: with durability TRADEOFF a write flushes the active volume
\* after a successful merge_and_compress on every 8th odd generation value
\* returned by add (1, 17, 33, ...) and on no other
C23_Original ==
    (last.op = "write" /\ last.durability = "AKU_DURABILITY_SPEED_TRADEOFF")
        => (last.flushed <=> (/\ last.merge_status = "SUCCESS"
                              /\ last.merge_lock % 2 = 1
                              /\ ((last.merge_lock + 1) \div 2) % 8 = 1))

\* C23: with durability TRADEOFF a write flushes the active volume exactly
\* when merge_and_compress returned SUCCESS and the generation value returned
\* by add is 1 modulo 8, which is every 4th odd value (1, 9, 17, ...)
C23_FlushOnLockOneModEight ==
    (last.op = "write" /\ last.durability = "AKU_DURABILITY_SPEED_TRADEOFF")
        => (last.flushed <=> (/\ last.merge_status = "SUCCESS"
                              /\ last.merge_lock % 8 = 1))

\* a TRADEOFF write that flushed on the 5th odd generation value
C23_Witness ==
    /\ last.op = "write"
    /\ last.durability = "AKU_DURABILITY_SPEED_TRADEOFF"
    /\ last.merge_lock = 9
    /\ last.flushed

(***************************************************************************)
(* Sequencer::get_window                                                   *)
(***************************************************************************)
\* C24 as stated: in every reachable Sequencer state get_window() returns the
\* pair (top_timestamp - W, generation), the difference taken in the width of
\* aku_Timestamp
C24_Original ==
    get_window(seq) = <<(seq.top_timestamp_ - window_size_) % (2 ^ WordBits),
                        seq.sequence_number_>>

(***************************************************************************)
(* The flush token of Sequencer::add                                       *)
(***************************************************************************)
\* the last call was an add that returned SUCCESS
AddSucceeded == last.op = "add" /\ last.status = "SUCCESS" /\ ~panic

\* the last add called make_checkpoint_: its timestamp was not below
\* top_timestamp_ and lies in a window after checkpoint_
AddMadeCheckpoint ==
    /\ last.value.ts >= last.top_timestamp_
    /\ get_checkpoint_(last.value.ts) > last.checkpoint_

\* C25 as stated: the flush_token returned by a successful add equals the
\* Sequencer's generation after that add, and it is odd exactly when the add
\* performed a checkpoint that left at least C samples in ready
C25_Original ==
    AddSucceeded =>
        /\ last.lock = seq.sequence_number_
        /\ last.lock % 2 = 1 <=> (AddMadeCheckpoint /\ ReadySize(seq.ready_) >= c_threshold_)

\* C25: the flush_token returned by a successful add is the Sequencer's
\* generation after that add when the add performed a checkpoint and 0 when it
\* performed none, and it is odd exactly when the add performed a checkpoint
\* that left at least C samples in ready
C25_TokenOfCheckpoint ==
    AddSucceeded =>
        /\ AddMadeCheckpoint => last.lock = seq.sequence_number_
        /\ ~AddMadeCheckpoint => last.lock = 0
        /\ last.lock % 2 = 1 <=> (AddMadeCheckpoint /\ ReadySize(seq.ready_) >= c_threshold_)

\* a successful add that made no checkpoint in a Sequencer whose generation
\* is not 0
C25_Witness ==
    /\ AddSucceeded
    /\ ~AddMadeCheckpoint
    /\ seq.sequence_number_ > 0
    /\ last.lock = 0

(***************************************************************************)
(* Sequencer::close                                                        *)
(***************************************************************************)
\* every sample of held is a row of a chunk in the synced prefix of page p
InCompletedChunk(held, p) ==
    \A k \in 1..Len(held) :
        \E i \in 1..Len(StoredRows(p)) :
            /\ StoredRows(p)[i].ts = held[k].ts
            /\ StoredRows(p)[i].id = held[k].id

\* C26 as stated: after close(target) returns SUCCESS, runs and ready are
\* empty, every sample the Sequencer held is in a completed chunk of the page,
\* and the generation is even, also when the Sequencer held no samples
C26_Original ==
    [][(last'.op = "close" /\ last'.status = "SUCCESS" /\ ~panic') =>
          /\ seq'.runs_ = <<>>
          /\ seq'.ready_ = <<>>
          /\ InCompletedChunk(Flatten(seq.runs_ \o seq.ready_), page')
          /\ seq'.sequence_number_ % 2 = 0]_vars

(***************************************************************************)
(* Storage::search                                                         *)
(***************************************************************************)
\* volume i (0-based) is in visited exactly once
VisitedOnce(visited, i) == Cardinality({k \in 1..Len(visited) : visited[k] = i}) = 1

\* visited goes through the whole ring once, from the successor of the
\* active volume to the active volume
OldestToNewest(visited) ==
    /\ Len(visited) = NumVolumes
    /\ \A i \in 0..(NumVolumes - 1) : VisitedOnce(visited, i)
    /\ visited[1] = (storage.active_volume_ + 1) % NumVolumes
    /\ visited[NumVolumes] = storage.active_volume_
    /\ \A k \in 1..(NumVolumes - 1) : visited[k + 1] = (visited[k] + 1) % NumVolumes

\* visited goes through the whole ring once, from the active volume to its
\* successor
NewestToOldest(visited) ==
    /\ Len(visited) = NumVolumes
    /\ \A i \in 0..(NumVolumes - 1) : VisitedOnce(visited, i)
    /\ visited[1] = storage.active_volume_
    /\ visited[NumVolumes] = (storage.active_volume_ + 1) % NumVolumes
    /\ \A k \in 1..(NumVolumes - 1) :
           visited[k + 1] = (visited[k] + NumVolumes - 1) % NumVolumes

\* the last call was Storage::search with a query that parsed and started
QueryRan == last.op = "storage_search" /\ last.query.parsed /\ last.query.started

\* C27 as stated: a forward query visits the volumes from the oldest (the
\* successor of the active volume) to the newest, ending with the active
\* volume; a backward query starts with the active volume and ends with the
\* oldest; each volume is visited exactly once
C27_Original ==
    QueryRan =>
        IF last.query.backward THEN NewestToOldest(last.visited)
        ELSE OldestToNewest(last.visited)

\* C27: a forward query visits the volumes from the oldest (the successor of
\* the active volume) to the newest, ending with the active volume; a backward
\* INSTANT query starts with the active volume and ends with the oldest; each
\* volume is visited exactly once. A backward CONTINUOUS query is refused and
\* visits no volume
C27_VisitOrder ==
    QueryRan =>
        IF ~last.query.backward THEN OldestToNewest(last.visited)
        ELSE IF last.query.type = "INSTANT" THEN NewestToOldest(last.visited)
        ELSE last.visited = <<>>

\* a backward query ran after the ring has advanced
C27_Witness ==
    /\ QueryRan
    /\ last.query.backward
    /\ last.query.type = "INSTANT"
    /\ storage.active_volume_index_ > 0
    /\ last.visited[1] = storage.active_volume_
    /\ storage.volumes_[last.visited[NumVolumes] + 1].page_.count > 0

(***************************************************************************)
(* Sequencer::merge_and_compress and the samples of ready                  *)
(***************************************************************************)
\* the runs a step appended to runs_
ReturnedRuns == SubSeq(seq'.runs_, Len(seq.runs_) + 1, Len(seq'.runs_))

\* the step is a merge_and_compress that returned, started with an odd
\* generation and a non-empty ready
MergedReady ==
    /\ last'.op = "merge_and_compress"
    /\ ~panic'
    /\ seq.sequence_number_ % 2 = 1
    /\ seq.ready_ # <<>>

KeptSplit ==
    /\ last'.op = "add"
    /\ ~panic'
    /\ last'.status = "SUCCESS"
    /\ last'.lock % 2 = 1

\* old_top of that make_checkpoint_: the previous checkpoint times W
OldTop == get_timestamp_(seq.checkpoint_)

\* the samples the runs held before the step, in the order of the runs
HeldInRuns == Flatten(seq.runs_)

\* C29 as stated: make_checkpoint_ moves exactly the samples with
\* timestamp < old_top to ready; every sample with timestamp >= old_top,
\* timestamp == old_top included, stays in runs
C29_Original ==
    [][KeptSplit =>
        /\ SameBag(Flatten(seq'.ready_),
                   Flatten(seq.ready_)
                       \o SelectSeq(HeldInRuns, LAMBDA v : v.ts < OldTop))
        /\ SameBag(Flatten(seq'.runs_),
                   Append(SelectSeq(HeldInRuns, LAMBDA v : v.ts >= OldTop),
                          last'.value))]_vars

\* C29: make_checkpoint_ moves to ready exactly the samples that sort before
\* (old_top, AKU_LIMITS_MAX_ID): those with timestamp < old_top and those with
\* timestamp == old_top and an id below AKU_LIMITS_MAX_ID; every other sample
\* stays in runs, where add then puts the new sample
C29_SplitAtOldTop ==
    [][KeptSplit =>
        /\ SameBag(Flatten(seq'.ready_),
                   Flatten(seq.ready_)
                       \o SelectSeq(HeldInRuns, LAMBDA v :
                              v.ts < OldTop
                                  \/ (v.ts = OldTop /\ v.id < AKU_LIMITS_MAX_ID)))
        /\ SameBag(Flatten(seq'.runs_),
                   Append(SelectSeq(HeldInRuns, LAMBDA v :
                              ~(v.ts < OldTop
                                  \/ (v.ts = OldTop /\ v.id < AKU_LIMITS_MAX_ID))),
                          last'.value))]_vars

\* a kept split moved a sample with timestamp == old_top to ready, old_top
\* being the edge of a window after the first
C29_Witness ==
    /\ last.op = "add"
    /\ ~panic
    /\ last.status = "SUCCESS"
    /\ last.lock % 2 = 1
    /\ last.checkpoint_ >= 1
    /\ \E v \in SampleSet(seq.ready_) : v.ts = get_timestamp_(last.checkpoint_)

(***************************************************************************)
(* top_timestamp_ and checkpoint_ after Sequencer::add                     *)
(***************************************************************************)
\* the largest timestamp among the accepted writes
MaxAccepted == CHOOSE t \in {v.ts : v \in accepted} : \A v \in accepted : v.ts <= t

\* C30: after every successful add, top_timestamp_ is the largest timestamp
\* among all accepted writes and checkpoint_ is floor(top_timestamp_ / W);
\* top_timestamp_ never decreases
C30_TopAndCheckpoint ==
    [][/\ seq'.top_timestamp_ >= seq.top_timestamp_
       /\ (last'.op = "add" /\ last'.status = "SUCCESS" /\ ~panic') =>
              /\ seq'.top_timestamp_ = MaxAccepted'
              /\ seq'.checkpoint_ = get_checkpoint_(seq'.top_timestamp_)]_vars

\* an accepted write below top_timestamp_ after the checkpoint has advanced
C30_Witness ==
    /\ last.op = "add"
    /\ last.status = "SUCCESS"
    /\ ~panic
    /\ last.value.ts < seq.top_timestamp_
    /\ last.value \in accepted
    /\ seq.checkpoint_ >= 1

(***************************************************************************)
(* kway_merge interrupted by its consumer                                  *)
(***************************************************************************)
\* the last call was a kway_merge whose consumer returned false: the runs held
\* more elements than it accepts
MergeInterrupted ==
    /\ last.op = "kway_merge"
    /\ Len(Flatten(last.runs)) > last.limit

\* t is what is left of range after its first n elements were consumed
SuffixAfter(t, range, n) == n < Len(range) /\ t = SubSeq(range, n + 1, Len(range))

\* consumed[i] elements of input run i were delivered, and remaining holds,
\* in some order, the rest of every run that was not delivered whole
RemainderOf(consumed) ==
    LET open == {i \in 1..Len(last.runs) : consumed[i] < Len(last.runs[i])}
    IN  /\ Len(last.remaining) = Cardinality(open)
        /\ \E f \in [1..Len(last.remaining) -> open] :
              /\ \A j, k \in 1..Len(last.remaining) : j # k => f[j] # f[k]
              /\ \A k \in 1..Len(last.remaining) :
                     SuffixAfter(last.remaining[k], make_range(last.runs[f[k]], last.dir),
                                 consumed[f[k]])

SlotHoldsEntry(p, i) ==
    /\ i \in DOMAIN p.page_index
    /\ p.page_index[i] \in DOMAIN p.mem
    /\ p.mem[p.page_index[i]].kind = "entry"

\* C32 as stated: whenever a reader can observe sync_count == n, every slot of
\* the offset index in [0, n) holds the offset of a completely written entry
C32_Original ==
    ~panic => \A i \in 1..page.sync_count : SlotHoldsEntry(page, i)

(***************************************************************************)
(* The locks held while runs are moved or split                            *)
(***************************************************************************)
\* the writer is inside the loop of make_checkpoint_, close or reset that
\* moves or splits the runs, or between that loop and the store to runs_
WriterMovesRuns == writers.pc \in {"split", "move", "unlocked"}

\* C33 as stated: while make_checkpoint_, close and reset move or split runs
\* they hold every stripe lock in write mode together with runs_resize_lock_,
\* and a search never observes a run that is being moved, split or emptied
C33_Original ==
    /\ WriterMovesRuns => (writers.stripes /\ writers.resize)
    /\ searcher.pc = "filter" =>
          /\ ~searcher.moving
          /\ \A k \in 1..Len(searcher.pruns) : searcher.pruns[k] # NullRun

(***************************************************************************)
(* What reuse and close change in the header                               *)
(***************************************************************************)
\* the header fields reuse is said to leave alone
KeptByReuse(p) == <<p.close_count, p.page_id, p.length>>

\* C34: reuse sets count, sync_count and the histogram size to 0, last_offset
\* to length - 1 and the bounding box to the empty box, adds one to
\* open_count and leaves close_count, page_id and length as they were; close
\* adds exactly one to close_count and changes nothing else
C34_ReuseAndClose ==
    [][/\ last'.op = "reuse" =>
            /\ page'.count = 0
            /\ page'.sync_count = 0
            /\ Len(page'.histogram) = 0
            /\ page'.last_offset = page.length - 1
            /\ page'.bbox = PageBoundingBox
            /\ page'.open_count = page.open_count + 1
            /\ KeptByReuse(page') = KeptByReuse(page)
       /\ last'.op = "close" => page' = [page EXCEPT !.close_count = page.close_count + 1]]_vars

\* a page that held entries was closed and then reused
C34_Witness ==
    /\ last.op = "reuse"
    /\ page.open_count = 2
    /\ page.close_count = 1
    /\ page.count = 0

(***************************************************************************)
(* The pairs written by the RLE writer                                     *)
(***************************************************************************)
\* the column a sequence of (count, value) pairs stands for
RECURSIVE ExpandPairs(_)
ExpandPairs(pairs) ==
    IF Len(pairs) < 2 THEN <<>>
    ELSE [i \in 1..pairs[1] |-> pairs[2]] \o ExpandPairs(SubSeq(pairs, 3, Len(pairs)))

\* the maximal runs of equal values in the column
RunsOf(col) == Cardinality({i \in 1..Len(col) : i = 1 \/ col[i] # col[i - 1]})

PairCounts(pairs) == {pairs[2 * k - 1] : k \in 1..(Len(pairs) \div 2)}

\* C35 as stated: the writer emits no pair whose count is 0, whatever the
\* column, the empty column included
C35_Original == last.op = "RLEWriter" => 0 \notin PairCounts(last.pairs)

\* C35: for a column that is not empty the writer emits one pair for each run
\* of equal values, the last of them at commit, none with count 0, and the
\* pairs stand for the column; for the empty column commit emits the pair
\* (0, 0)
C35_PairsOfRuns ==
    last.op = "RLEWriter" =>
        /\ last.col # <<>> =>
              /\ 0 \notin PairCounts(last.pairs)
              /\ Len(last.pairs) = 2 * RunsOf(last.col)
              /\ ExpandPairs(last.pairs) = last.col
        /\ last.col = <<>> => last.pairs = <<0, 0>>

\* a column of two runs went through the writer
C35_Witness ==
    /\ last.op = "RLEWriter"
    /\ Len(last.col) = 3
    /\ last.col[1] = last.col[2]
    /\ last.col[2] # last.col[3]
    /\ Len(last.pairs) = 4

(***************************************************************************)
(* The bounding box and the rows of the chunks                             *)
(***************************************************************************)
\* the timestamp is inside the bounding box of the page, as fast_path tests it
InsideBoxTs(p, ts) == p.bbox.min_timestamp <= ts /\ ts <= p.bbox.max_timestamp

\* C36 as stated: the bounding box of the page contains the timestamp of
\* every stored sample, the rows inside every chunk included, so that
\* fast_path never answers with an empty result for the timestamp of a
\* stored sample
C36_Original ==
    ~panic => \A i \in 1..Len(StoredRows(page)) : InsideBoxTs(page, StoredRows(page)[i].ts)

(***************************************************************************)
(* The order of the timestamps in the synced offset index                  *)
(***************************************************************************)
\* the timestamp of the entry in slot i of the offset index
SlotTime(p, i) == p.mem[p.page_index[i]].time

\* C37 as stated: after the accepted writes were flushed to the page by the
\* Sequencer, the timestamps of the entries in the synced offset index are
\* non-decreasing in index order
C37_Original ==
    ~panic =>
        \A i, j \in 1..page.sync_count :
            (i < j /\ SlotHoldsEntry(page, i) /\ SlotHoldsEntry(page, j))
                => SlotTime(page, i) <= SlotTime(page, j)

(***************************************************************************)
(* The map and the FIFO of the ChunkCache                                  *)
(***************************************************************************)
FifoKeys(c) == {c.fifo_[i].key : i \in 1..Len(c.fifo_)}

\* C38 as stated: after any sequence of puts, a repeated key included, the
\* keys of the map are the keys of the FIFO, each key is in the FIFO once,
\* and total_size_ is the sum of the sizes of the chunks in the map
C38_Original ==
    last.op = "put" =>
        /\ DOMAIN chunk_cache.cache_ = FifoKeys(chunk_cache)
        /\ \A i, j \in 1..Len(chunk_cache.fifo_) :
               chunk_cache.fifo_[i].key = chunk_cache.fifo_[j].key => i = j
        /\ chunk_cache.total_size_ = CachedBytes(chunk_cache, DOMAIN chunk_cache.cache_)

(***************************************************************************)
(* The fan-in of cursors                                                   *)
(***************************************************************************)
\* the results are in the order of the query direction
InDirection(dir, out) ==
    \A i \in 1..(Len(out) - 1) :
        IF dir = AKU_CURSOR_DIR_BACKWARD THEN ~KeyLess(out[i], out[i + 1])
        ELSE ~KeyLess(out[i + 1], out[i])

\* every result of every input is in out exactly once, and nothing else is
EveryResultOnce(f) ==
    /\ \A i \in 1..Len(f.in_cursors_) : \A k \in 1..Len(f.in_cursors_[i].items) :
           Occurrences(f.out, f.in_cursors_[i].items[k]) = 1
    /\ Len(f.out) = Len(f.in_cursors_[1].items) + Len(f.in_cursors_[2].items)

\* read_impl_ has returned
FanInDone == searcher.pc \in {"complete", "error"}

FanInSafe ==
    /\ InDirection(searcher.direction_, searcher.out)
    /\ searcher.pc = "complete" =>
          /\ EveryResultOnce(searcher)
          /\ searcher.out_cursor_.complete_
          /\ ~searcher.out_cursor_.error_
          /\ \A i \in 1..Len(searcher.in_cursors_) : ~searcher.in_cursors_[i].error_
    /\ (searcher.pc # "start"
           /\ \E i \in 1..Len(searcher.in_cursors_) : searcher.in_cursors_[i].error_) =>
          /\ searcher.pc = "error"
          /\ searcher.out_cursor_.error_
          /\ \E i \in 1..Len(searcher.in_cursors_) :
                /\ searcher.in_cursors_[i].error_
                /\ searcher.out_cursor_.error_code_ = searcher.in_cursors_[i].error_code_

\* C39: over inputs that deliver their results sorted in the query direction
\* the combinator delivers every result of every input exactly once, in
\* (timestamp, param_id) order of the direction, and then completes; when an
\* input reports an error the output cursor reports that error and does not
\* complete normally
C39_FanIn == []FanInSafe /\ <>FanInDone

\* two inputs of three results each, read in two batches each, were merged
\* forward with their results interleaved
C39_Witness ==
    /\ searcher.pc = "complete"
    /\ searcher.direction_ = AKU_CURSOR_DIR_FORWARD
    /\ Len(searcher.out) = 6
    /\ searcher.out[1].data_offset = 21
    /\ searcher.out[2].data_offset = 11
    /\ searcher.out[6].data_offset = 13
    /\ searcher.out[1].timestamp < searcher.out[6].timestamp

(***************************************************************************)
(* The generation of the Sequencers of a Storage                           *)
(***************************************************************************)
\* sequence_number_ of the Sequencer of every volume is even
GenerationsEven(st) ==
    \A i \in 1..Len(st.volumes_) : st.volumes_[i].cache_.sequence_number_ % 2 = 0

\* C40 as stated: with one writer, whatever the sequence of write_double and
\* close calls on the Storage, make_checkpoint_ is never entered with an odd
\* generation (its panic is not reached) and the generation is even whenever
\* a call returns, also after a close of a Sequencer that held no samples
C40_Original ==
    /\ ~(panic /\ last.op = "write" /\ last.merge_status = "NONE")
    /\ (~panic /\ last.op \in {"write", "storage_close"}) => GenerationsEven(storage)

====
